---- MODULE Spec2Model ----
(***************************************************************************)
(* Model of the ingestion and deduplication engine of srq-hpn:             *)
(*   - the upsert engine  (app/services/ingest_upsert.py)                  *)
(*   - the category helpers it calls (app/services/categorize.py)          *)
(*   - the feed orchestrator (app/services/ingest_source_items.py,         *)
(*     app/services/ingest_bigtop.py, app/tasks.py)                        *)
(*   - the calendar fetcher (app/ingestion/ical.py)                        *)
(* Storage is PostgreSQL under READ COMMITTED: every writer owns one       *)
(* transaction; rows it flushed are invisible to the others until commit,  *)
(* and a unique-index conflict with another writer's uncommitted row waits *)
(* for that writer to end.  The ORM session is created with                *)
(* autoflush=False (app/db.py), so attribute changes stay in the session   *)
(* until an explicit flush.                                                *)
(***************************************************************************)
EXTENDS Naturals, Integers, Sequences, FiniteSets, TLC

(***************************************************************************)
(* Bounds of the model                                                     *)
(***************************************************************************)
NumWriters == 2
MaxCalls == 2
MaxEvents == 7
NumClients == 3
MaxDays == 2

Writers == 1..NumWriters
Clients == 1..NumClients

(***************************************************************************)
(* Small input domains.  Strings are tuples of one-character strings so    *)
(* that the text functions of the code can be computed on them.            *)
(***************************************************************************)
SourceIds == {1, 2}
CallSources == {1}
ExtIds == { <<"x">>, <<"y">>, <<"x", "@", "y">> }
Titles == { <<"a">>, <<"A", "!">> }
Times == {1, 2}
NoExt == << >>

(***************************************************************************)
(* Text helpers                                                            *)
(***************************************************************************)
Letters == {"a", "b", "c", "d", "e", "h", "m", "o", "s", "t", "u", "x", "y"}
Digits == {"0", "1", "2", "3"}
UpperChars == <<"A", "B", "C", "D", "E", "H", "M", "O", "S", "T", "U", "X", "Y">>
LowerChars == <<"a", "b", "c", "d", "e", "h", "m", "o", "s", "t", "u", "x", "y">>

Range(f) == {f[i] : i \in DOMAIN f}

LowerChar(c) ==
  IF c \in Range(UpperChars)
  THEN LowerChars[CHOOSE i \in DOMAIN UpperChars : UpperChars[i] = c]
  ELSE c

Lower(s) == [i \in 1..Len(s) |-> LowerChar(s[i])]

IsSlugChar(c) == c \in Letters \cup Digits

IsSpace(c) == c \in {" ", "\n", "\t"}

RECURSIVE ReSub(_, _)
(* re.sub(r"[^a-z0-9]+", sep, s): every maximal run of other characters    *)
(* becomes one sep.                                                        *)
ReSub(s, sep) ==
  IF s = << >> THEN << >>
  ELSE IF IsSlugChar(Head(s)) THEN <<Head(s)>> \o ReSub(Tail(s), sep)
  ELSE IF Len(s) > 1 /\ ~IsSlugChar(s[2]) THEN ReSub(Tail(s), sep)
  ELSE <<sep>> \o ReSub(Tail(s), sep)

RECURSIVE LStrip(_, _)
LStrip(s, cs) ==
  IF s # << >> /\ Head(s) \in cs THEN LStrip(Tail(s), cs) ELSE s

RECURSIVE RStrip(_, _)
RStrip(s, cs) ==
  IF s # << >> /\ s[Len(s)] \in cs THEN RStrip(SubSeq(s, 1, Len(s) - 1), cs) ELSE s

Strip(s, cs) == RStrip(LStrip(s, cs), cs)

Spaces == {" ", "\n", "\t"}

slugify(value) == Strip(ReSub(Lower(Strip(value, Spaces)), "-"), {"-"})

truncate(value, max_len) ==
  IF Len(value) <= max_len THEN value
  ELSE RStrip(SubSeq(value, 1, max_len), {"-"})

RECURSIVE BeforeAt(_)
(* external_id.split("@", 1)[0] *)
BeforeAt(s) ==
  IF s = << >> \/ Head(s) = "@" THEN << >> ELSE <<Head(s)>> \o BeforeAt(Tail(s))

IntStr(n) == <<CASE n = 0 -> "0" [] n = 1 -> "1" [] n = 2 -> "2" [] OTHER -> "3">>

OrElse(s, dflt) == IF s = << >> THEN dflt ELSE s

build_event_slug(title, source_id, external_id) ==
  LET base == OrElse(slugify(title), <<"e">>)
      frag == truncate(OrElse(slugify(BeforeAt(external_id)), <<"x">>), 24)
  IN truncate(base \o <<"-">> \o IntStr(source_id) \o <<"-">> \o frag, 120)

normalize_title_key(title) == Strip(ReSub(Lower(title), " "), Spaces)

(* The SQL side of the semantic lookup: regexp_replace(lower(title), ...)  *)
(* with no trim.                                                           *)
title_expr(title) == ReSub(Lower(title), " ")


RECURSIVE CollapseSpaces(_)
(* " ".join(s.split()) of a stripped string *)
CollapseSpaces(s) ==
  IF s = << >> THEN << >>
  ELSE IF ~IsSpace(Head(s)) THEN <<Head(s)>> \o CollapseSpaces(Tail(s))
  ELSE IF Len(s) > 1 /\ IsSpace(s[2]) THEN CollapseSpaces(Tail(s))
  ELSE <<" ">> \o CollapseSpaces(Tail(s))

(***************************************************************************)
(* Location text: the address extraction of the upsert engine and the      *)
(* venue resolver (app/services/venue_resolver.py)                         *)
(***************************************************************************)
IsDigit(c) == c \in Digits

(* \w of the regular expressions *)
IsWordChar(c) == c \in Letters \cup Digits \cup Range(UpperChars) \cup {"_"}

RECURSIVE SplitOn(_, _)
(* s.split(sep) for a separator of one character *)
SplitOn(s, sep) ==
  IF \A i \in 1..Len(s) : s[i] # sep THEN <<s>>
  ELSE LET i == CHOOSE k \in 1..Len(s) : s[k] = sep /\ \A j \in 1..(k - 1) : s[j] # sep
       IN <<SubSeq(s, 1, i - 1)>> \o SplitOn(SubSeq(s, i + 1, Len(s)), sep)

NonEmpty(pieces) == SelectSeq(pieces, LAMBDA p : p # << >>)

(* the maximal runs of word characters of s *)
Words(s) ==
  NonEmpty(SplitOn([i \in 1..Len(s) |-> IF IsWordChar(s[i]) THEN s[i] ELSE " "], " "))

(* NUMBER_RE = \b\d{1,6}\b finds a word made of one to six digits *)
MaxDigits == 6

NUMBER_RE(seg) ==
  \E i \in 1..Len(Words(seg)) :
    LET word == Words(seg)[i]
    IN Len(word) <= MaxDigits /\ \A k \in 1..Len(word) : IsDigit(word[k])

(* the street suffixes of STREET_SUFFIX_RE that the model's alphabet spells *)
StreetSuffixes == {<<"s", "t">>, <<"c", "t">>}

STREET_SUFFIX_RE(seg) ==
  \E i \in 1..Len(Words(seg)) : Lower(Words(seg)[i]) \in StreetSuffixes

(* the members of COUNTRY_SEGMENTS that the model's alphabet spells *)
COUNTRY_SEGMENTS == {<<"u", "s", "a">>, <<"u", "s">>}

(* _normalize_location of ingest_upsert.py: " ".join(location.split()) *)
join_split(location) == CollapseSpaces(Strip(location, Spaces))

RECURSIVE UntilCountry(_)
UntilCountry(segs) ==
  IF segs = << >> \/ Lower(Head(segs)) \in COUNTRY_SEGMENTS THEN << >>
  ELSE <<Head(segs)>> \o UntilCountry(Tail(segs))

RECURSIVE Join(_, _)
Join(pieces, sep) ==
  IF pieces = << >> THEN << >>
  ELSE IF Len(pieces) = 1 THEN Head(pieces)
  ELSE Head(pieces) \o sep \o Join(Tail(pieces), sep)

(* no location, no address, no venue *)
NoLocation == << >>
NoAddress == << >>
NoVenue == 0

(* _extract_address, lines 50-77 *)
extract_address(location) ==
  IF location = NoLocation THEN NoAddress
  ELSE LET pieces == SplitOn(join_split(location), ",")
           segments == NonEmpty([i \in 1..Len(pieces) |-> Strip(pieces[i], Spaces)])
           starts == {i \in 1..Len(segments) :
                        NUMBER_RE(segments[i]) /\ STREET_SUFFIX_RE(segments[i])}
       IN IF starts = {} THEN NoAddress
          ELSE LET start_idx == CHOOSE i \in starts : \A j \in starts : i <= j
               IN Join(UntilCountry(SubSeq(segments, start_idx, Len(segments))),
                       <<",", " ">>)

(* normalize_location of venue_resolver.py, lines 22-26 *)
normalize_location(text) ==
  LET lowered == Lower(Strip(text, Spaces))
      no_punct == [i \in 1..Len(lowered) |->
                     IF IsWordChar(lowered[i]) \/ IsSpace(lowered[i]) THEN lowered[i]
                     ELSE " "]
  IN Strip(CollapseSpaces(no_punct), Spaces)

(* SequenceMatcher.find_longest_match over whole strings: the sizes of the  *)
(* common blocks of a and b                                                *)
BlockAt(a, b, i, j, k) == SubSeq(a, i, i + k - 1) = SubSeq(b, j, j + k - 1)

BlockSizes(a, b) ==
  {k \in 1..(IF Len(a) < Len(b) THEN Len(a) ELSE Len(b)) :
     \E i \in 1..(Len(a) - k + 1), j \in 1..(Len(b) - k + 1) : BlockAt(a, b, i, j, k)}

RECURSIVE MatchingChars(_, _)
(* the sum of the sizes of get_matching_blocks: the longest block that     *)
(* starts earliest in a, then earliest in b, and the same to its left and  *)
(* to its right                                                            *)
MatchingChars(a, b) ==
  IF BlockSizes(a, b) = {} THEN 0
  ELSE LET k == CHOOSE m \in BlockSizes(a, b) : \A n \in BlockSizes(a, b) : n <= m
           I == {i \in 1..(Len(a) - k + 1) :
                   \E j \in 1..(Len(b) - k + 1) : BlockAt(a, b, i, j, k)}
           i == CHOOSE x \in I : \A y \in I : x <= y
           J == {j \in 1..(Len(b) - k + 1) : BlockAt(a, b, i, j, k)}
           j == CHOOSE x \in J : \A y \in J : x <= y
       IN k + MatchingChars(SubSeq(a, 1, i - 1), SubSeq(b, 1, j - 1))
            + MatchingChars(SubSeq(a, i + k, Len(a)), SubSeq(b, j + k, Len(b)))

(* _similarity_ratio: SequenceMatcher.ratio() = 2.0 * M / T, kept as the    *)
(* fraction <<numerator, denominator>>; 1.0 for two empty strings          *)
similarity_ratio(a, b) ==
  IF Len(a) + Len(b) = 0 THEN <<1, 1>> ELSE <<2 * MatchingChars(a, b), Len(a) + Len(b)>>

(* comparisons of fractions with positive denominators *)
Greater(p, q) == p[1] * q[2] > q[1] * p[2]

AtLeast(p, q) == p[1] * q[2] >= q[1] * p[2]

(* FUZZY_MATCH_THRESHOLD = 0.85 *)
FUZZY_MATCH_THRESHOLD == <<85, 100>>

(* a candidate is kept only when it is above the threshold *)
BetterAboveThreshold(ratio, best_ratio) ==
  Greater(ratio, best_ratio) /\ Greater(ratio, FUZZY_MATCH_THRESHOLD)

(* lines 70 and 78: ratio > best_ratio and ratio >= FUZZY_MATCH_THRESHOLD *)
Better(ratio, best_ratio) ==
  Greater(ratio, best_ratio) /\ AtLeast(ratio, FUZZY_MATCH_THRESHOLD)

RECURSIVE FuzzyScan(_, _, _)
(* the loops of lines 68-72 and 75-80 over candidates <<venue id, text>>,  *)
(* from best = <<best_match_id, best_ratio>>                               *)
FuzzyScan(cands, norm, best) ==
  IF cands = << >> THEN best
  ELSE LET ratio == similarity_ratio(norm, Head(cands)[2])
       IN FuzzyScan(Tail(cands), norm,
                    IF Better(ratio, best[2]) THEN <<Head(cands)[1], ratio>> ELSE best)

(* resolve_venue_id over the rows of venue_aliases <<venue_id,             *)
(* alias_normalized>> and of venues <<id, name>>, each in the order the    *)
(* query returns them                                                      *)
resolve_venue_id(aliases, venues, location_text) ==
  IF location_text = NoLocation \/ Strip(location_text, Spaces) = << >> THEN NoVenue
  ELSE LET norm == normalize_location(location_text)
           byAlias == SelectSeq(aliases, LAMBDA r : r[2] = norm)
           named == [i \in 1..Len(venues) |-> <<venues[i][1], normalize_location(venues[i][2])>>]
           byName == SelectSeq(named, LAMBDA r : r[2] = norm)
       IN IF byAlias # << >> THEN byAlias[1][1]
          ELSE IF byName # << >> THEN byName[1][1]
          ELSE FuzzyScan(named, norm, FuzzyScan(aliases, norm, <<NoVenue, <<0, 1>>>>))[1]

(***************************************************************************)
(* The category registry (app/services/categorize.py)                      *)
(***************************************************************************)
(* no text: None *)
NoText == << >>

Comedy == <<"C", "o", "m", "e", "d", "y">>

(* CATEGORY_KEYWORDS: one category of the registry, with those of its      *)
(* keywords that the model's alphabet spells                               *)
CATEGORY_KEYWORDS ==
  {[name |-> Comedy, keywords |-> {<<"c", "o", "m", "e", "d", "y">>}]}

KnownCats == {r.name : r \in CATEGORY_KEYWORDS}

(* a filter that lets every stripped name through *)
filter_nothing(names) ==
  NonEmpty([i \in 1..Len(names) |-> Strip(names[i], Spaces)])

(* filter_known_categories: the canonical spelling of every name that      *)
(* matches a registry name case-insensitively after strip(); the others    *)
(* are dropped                                                             *)
filter_known_categories(names) ==
  LET known(name) == \E r \in CATEGORY_KEYWORDS : Lower(r.name) = Lower(Strip(name, Spaces))
      canonical(name) ==
        (CHOOSE r \in CATEGORY_KEYWORDS : Lower(r.name) = Lower(Strip(name, Spaces))).name
      kept == SelectSeq(names, known)
  IN [i \in 1..Len(kept) |-> canonical(kept[i])]

(* cat.strip() for cat in text.split(",") if cat.strip() *)
SplitCats(text) ==
  LET pieces == SplitOn(text, ",")
  IN NonEmpty([i \in 1..Len(pieces) |-> Strip(pieces[i], Spaces)])

(* pattern.search(text) for \b(?:keyword)\b, ignoring case *)
KeywordIn(kw, text) ==
  \E i \in 1..(Len(text) - Len(kw) + 1) :
    /\ Lower(SubSeq(text, i, i + Len(kw) - 1)) = kw
    /\ i = 1 \/ ~IsWordChar(text[i - 1])
    /\ i + Len(kw) > Len(text) \/ ~IsWordChar(text[i + Len(kw)])

(* infer_categories(title, None): the categories with a keyword in the title *)
infer_categories(title) ==
  {r.name : r \in {x \in CATEGORY_KEYWORDS : \E kw \in x.keywords : KeywordIn(kw, title)}}

(***************************************************************************)
(* State                                                                   *)
(***************************************************************************)
VARIABLES
  evC,      \* committed rows of table events
  evU,      \* evU[w]: row versions writer w flushed and has not committed
  occC,     \* committed rows of table event_occurrences
  occU,     \* occU[w]: occurrences flushed by w, uncommitted
  catC,     \* committed rows of table categories (by name)
  catU,     \* catU[w]: categories flushed by w, uncommitted
  linkC,    \* committed rows of table event_categories
  linkU,    \* linkU[w]: links written by w, uncommitted
  dirty,    \* dirty[w]: attribute changes held in w's session, not flushed
  occDirty, \* occDirty[w]: attribute changes of occurrences held in w's session
  failed,   \* failed[w]: a flush of w's session failed and was not rolled back
  nextId,   \* the events.id sequence
  nextOcc,  \* the event_occurrences.id sequence
  feedC,    \* committed rows of table source_feeds (by feed id)
  feedS,    \* the feed rows as the orchestrator's session and transaction hold them
  pc,       \* pc[w]: position of w inside upsert_event_and_occurrence
  call,     \* call[w]: arguments of the running upsert call
  ev,       \* ev[w]: id of the Event the call holds (0: None)
  how,      \* how[w]: how the call resolved its event
  exc,      \* exc[w]: the exception the last call raised and the step raising it
  todo,     \* todo[w]: category names the call still has to apply
  cur,      \* cur[w]: the category name being created (NoText if none)
  calls,    \* number of upsert calls started so far
  src,      \* source.id of the source the orchestrator ingests
  bigtop,   \* is_bigtop: is_bigtop_source(source)
  feeds,    \* the source's feed rows by ascending id, each with what its URL serves
  outcomes, \* what a fetch of a feed may end with in this run
  passes,   \* how many times the ingest task is run
  limit,    \* the limit argument of ingest_source_items
  pass,     \* number of the running pass (0 before the first)
  opc,      \* position of the orchestrator inside ingest_source / ingest_source_items
  items,    \* the loaded feed ids in processing order
  fi,       \* index into items of the feed being processed
  ii,       \* index into the parsed events of that feed
  seen, ingested, errors, cf_challenges,   \* the counters returned
  seen_signatures,
  existing_signature_map,   \* as a set of <<signature, external_id>> candidates
  events_ingested_count,
  attempted,   \* the feed ids fetched so far in this pass, in order
  stats,       \* row counts of events, occurrences, category links after each committed pass
  item_results,  \* <<feed id, index, how it ended>> of every upsert call of this pass
  max_retries,  \* the argument of fetch_ics
  attempt,      \* the loop variable of fetch_ics
  requests,     \* GET requests issued by the running fetch_ics
  sleeps,       \* its calls of time.sleep
  delays,       \* the arguments of those calls, in ticks
  challenges,   \* its requests answered by a challenge
  fpc,          \* position of fetch_ics: "off", "run", "returned", "raised"
  resp,         \* outcome of its last GET
  result,       \* the bytes it returned
  error,        \* the exception it raised
  location_text,  \* the argument of a call of resolve_venue_id
  alias_rows,     \* the rows of venue_aliases in the order its query returns them
  venue_rows,     \* the rows of venues in the order its query returns them
  vpc,            \* position of that call: "off", "call", "done"
  venue_id,       \* what it returned
  ics_bytes,    \* the bytes handed to the sanitizer
  sanitized,    \* what it returned
  spc,          \* position of that call: "off", "call", "done"
  wday,         \* the local day it is now
  reports,      \* the weather_reports of the location: "none", "stale", "fresh"
  counterC,     \* committed rows of weather_fetch_counters: day |-> fetch_count
  counterLock,  \* counterLock[d]: the caller holding the row lock of day d's counter (0: none)
  wpc,          \* wpc[p]: position of caller p inside get_weather_payload
  wnow,         \* wnow[p]: the local day of the call's now
  wins,         \* wins[p]: p has flushed a new counter row and not committed it
  wcount,       \* wcount[p]: counter.fetch_count as p's session holds it
  slot,         \* slot[p]: the fetch_count the call reserved (0: none)
  fetchesOn,    \* fetchesOn[d]: provider fetches performed while the local day was d
  fetchesFor,   \* fetchesFor[d]: provider fetches performed by calls whose now is on day d
  batch_size,   \* ProdApiSink._batch_size
  retries,      \* ProdApiSink._retries
  buffer,       \* ProdApiSink._buffer: the events not yet delivered
  sink_source,  \* ProdApiSink._source_id (0: None)
  handed,       \* number of events handed to on_event so far; they are numbered 1, 2, ..
  posted,       \* the events that were part of a POST answered with a status below 400
  sink_op,      \* the last call of the sink and how it ended
  source_feeds, \* the rows of table source_feeds as the collector's transaction sees them
  reg_now,      \* the clock of the collector
  reg_call      \* the arguments of the last call of upsert_source_feed

dbVars == <<evC, evU, occC, occU, catC, catU, linkC, linkU, dirty, occDirty, failed, nextId,
           nextOcc, feedC, feedS>>
callVars == <<pc, call, ev, how, exc, todo, cur, calls>>
orchVars == <<src, bigtop, feeds, outcomes, passes, limit, pass, opc, items, fi, ii, seen, ingested,
             errors, cf_challenges, seen_signatures, existing_signature_map,
             events_ingested_count, attempted, stats, item_results>>
fetchVars == <<max_retries, attempt, requests, sleeps, delays, challenges, fpc, resp, result,
              error>>
venueVars == <<location_text, alias_rows, venue_rows, vpc, venue_id>>
weatherVars == <<wday, reports, counterC, counterLock, wpc, wnow, wins, wcount, slot, fetchesOn,
                fetchesFor>>
sanVars == <<ics_bytes, sanitized, spc>>
sinkVars == <<batch_size, retries, buffer, sink_source, handed, posted, sink_op>>
regVars == <<source_feeds, reg_now, reg_call>>
auxVars == <<sanVars, weatherVars, sinkVars, regVars>>
exceptWeather == <<dbVars, callVars, orchVars, fetchVars, venueVars, sanVars, sinkVars, regVars>>
exceptSink == <<dbVars, callVars, orchVars, fetchVars, venueVars, sanVars, weatherVars, regVars>>
exceptReg == <<dbVars, callVars, orchVars, fetchVars, venueVars, sanVars, weatherVars, sinkVars>>
vars == <<dbVars, callVars, orchVars, fetchVars, venueVars, auxVars>>

(* no datetime *)
NoTime == 0

NoCall == [source_id |-> 0, external_id |-> NoExt, title |-> << >>, start_utc |-> NoTime,
           start_aware |-> TRUE, end_utc |-> NoTime, end_aware |-> TRUE,
           location |-> NoLocation, categories |-> << >>]

(* sources.default_categories: source 1 names a category of the registry   *)
(* and a name that is not one, "comedy, xy"; source 2 has none             *)
default_categories(source_id) ==
  IF source_id = 1
  THEN <<"c", "o", "m", "e", "d", "y", ",", " ", "x", "y">>
  ELSE NoText

(* lines 262-270: the defaults of the source, filtered to the registry *)
DefaultCats(source_id) ==
  IF default_categories(source_id) = NoText THEN {}
  ELSE Range(filter_known_categories(SplitCats(default_categories(source_id))))

(* lines 256-276: explicit names, source defaults and inferred names *)
all_categories(c) ==
  Range(filter_known_categories(c.categories))
    \cup DefaultCats(c.source_id)
    \cup infer_categories(c.title)

(* The records the callers hand over carry no explicit category and no     *)
(* category keyword, so the categories applied are the source's defaults.  *)
(* They carry an aware start and neither end nor location.                 *)
CallArgs ==
  {[source_id |-> s, external_id |-> x, title |-> t, start_utc |-> d,
    start_aware |-> TRUE, end_utc |-> NoTime, end_aware |-> TRUE,
    location |-> NoLocation, categories |-> << >>] :
     s \in CallSources, x \in ExtIds, t \in Titles, d \in Times}

(***************************************************************************)
(* What a writer's statements see: committed rows overlaid with its own    *)
(* uncommitted row versions.                                               *)
(***************************************************************************)
Ids(rows) == {r.id : r \in rows}

EvView(w) == {r \in evC : r.id \notin Ids(evU[w])} \cup evU[w]

OccView(w) == {o \in occC : o.id \notin Ids(occU[w])} \cup occU[w]

CatView(w) == catC \cup catU[w]

LinkView(w) == linkC \cup linkU[w]

Others(w) == Writers \ {w}

(* The Event object as the session holds it: flushed row plus dirty attributes *)
(* an object whose flush writes the default of the hidden flag as well *)
SessionRowUnhides(w, id) ==
  LET r == CHOOSE x \in EvView(w) : x.id = id
  IN IF \E d \in dirty[w] : d.id = id
     THEN LET d == CHOOSE x \in dirty[w] : x.id = id
          IN [r EXCEPT !.title = d.title, !.external_id = d.external_id, !.hidden = FALSE]
     ELSE r

SessionRow(w, id) ==
  LET r == CHOOSE x \in EvView(w) : x.id = id
  IN IF \E d \in dirty[w] : d.id = id
     THEN LET d == CHOOSE x \in dirty[w] : x.id = id
          IN [r EXCEPT !.title = d.title, !.external_id = d.external_id]
     ELSE r

(* The EventOccurrence object as the session holds it *)
SessionOcc(w, id) ==
  LET o == CHOOSE x \in OccView(w) : x.id = id
  IN IF \E d \in occDirty[w] : d.id = id
     THEN LET d == CHOOSE x \in occDirty[w] : x.id = id
          IN [o EXCEPT !.end_datetime_utc = d.end_datetime_utc,
                       !.location_text = d.location_text,
                       !.address_text = d.address_text,
                       !.venue_id = d.venue_id]
     ELSE o

(***************************************************************************)
(* Uniqueness constraints of the schema                                    *)
(***************************************************************************)
(* uq_events_source_external_id (non-null external_id) and events.slug     *)
EventKeyClash(r, o) ==
  /\ r.id # o.id
  /\ \/ /\ r.external_id # NoExt
        /\ r.source_id = o.source_id
        /\ r.external_id = o.external_id
     \/ r.slug = o.slug

(* uq_event_occurrences_event_start *)
(* a schema without the occurrence constraint *)
OccKeyClashOff(r, o) == FALSE

OccKeyClash(r, o) == r.id # o.id /\ r.event_id = o.event_id /\ r.start = o.start

(* The UPDATE statements a flush of w's session emits for events *)
PendingUpdates(w) == {SessionRow(w, d.id) : d \in dirty[w]}

(* The UPDATE statements it emits for occurrences *)
PendingOccUpdates(w) == {SessionOcc(w, d.id) : d \in occDirty[w]}

(* A flush waits while a row it writes clashes with, or is locked by, an   *)
(* uncommitted row version of another writer.                              *)
FlushBlocked(w, newEv, newOcc, newCat) ==
  LET R == PendingUpdates(w) \cup newEv
  IN \E v \in Others(w) :
       \/ \E r \in R, o \in evU[v] : o.id = r.id \/ EventKeyClash(r, o)
       \/ \E r \in newOcc, o \in occU[v] : OccKeyClash(r, o)
       \/ \E r \in PendingOccUpdates(w), o \in occU[v] : o.id = r.id
       \/ newCat \cap catU[v] # {}

(* A flush raises IntegrityError when a row it writes clashes with a row   *)
(* visible to the writer.                                                  *)
FlushViolates(w, newEv, newOcc, newCat) ==
  LET R == PendingUpdates(w) \cup newEv
      rest == {r \in EvView(w) : r.id \notin Ids(R)}
  IN \/ \E r \in R, o \in rest \cup R : EventKeyClash(r, o)
     \/ \E r \in newOcc, o \in OccView(w) : OccKeyClash(r, o)
     \/ newCat \cap CatView(w) # {}

(* Successful flush: the pending updates and the new rows reach the        *)
(* writer's transaction.                                                   *)
FlushOk(w, newEv, newOcc, newCat) ==
  LET R == PendingUpdates(w) \cup newEv
      Q == PendingOccUpdates(w) \cup newOcc
  IN /\ evU' = [evU EXCEPT ![w] = {u \in @ : u.id \notin Ids(R)} \cup R]
     /\ occU' = [occU EXCEPT ![w] = {u \in @ : u.id \notin Ids(Q)} \cup Q]
     /\ catU' = [catU EXCEPT ![w] = @ \cup newCat]
     /\ dirty' = [dirty EXCEPT ![w] = {}]
     /\ occDirty' = [occDirty EXCEPT ![w] = {}]

(* The writer that runs the orchestration pass *)
Orch == 1

(* The transaction ends without commit: its rows and the session's changes *)
(* are gone, the session's objects are expired and reload committed state. *)
(* What the session holds for occurrences afterwards is said by the caller. *)
AbortDb(w, inactive) ==
  /\ evU' = [evU EXCEPT ![w] = {}]
  /\ occU' = [occU EXCEPT ![w] = {}]
  /\ catU' = [catU EXCEPT ![w] = {}]
  /\ linkU' = [linkU EXCEPT ![w] = {}]
  /\ dirty' = [dirty EXCEPT ![w] = {}]
  /\ failed' = [failed EXCEPT ![w] = inactive]
  /\ feedS' = IF w = Orch THEN feedC ELSE feedS

(* db.rollback() *)
RollbackDb(w) == AbortDb(w, FALSE) /\ occDirty' = [occDirty EXCEPT ![w] = {}]

(* A flush that fails outside a try block of the engine: the transaction   *)
(* is rolled back and the session refuses further work until rollback().   *)
FlushFailed(w) == AbortDb(w, TRUE) /\ occDirty' = [occDirty EXCEPT ![w] = {}]

(***************************************************************************)
(* Lookups of the upsert engine                                            *)
(***************************************************************************)
MinId(rows) == IF rows = {} THEN 0 ELSE CHOOSE i \in Ids(rows) : \A j \in Ids(rows) : i <= j

(* _get_event over a set of visible rows *)
get_event(rows, source_id, external_id) ==
  MinId({r \in rows : r.source_id = source_id /\ r.external_id = external_id})

(* _get_event_by_semantic_key over visible rows *)
get_event_by_semantic_key(rows, occs, source_id, title, start_utc) ==
  LET title_key == normalize_title_key(title)
  IN IF title_key = << >> THEN 0
     ELSE MinId({r \in rows :
                   /\ r.source_id = source_id
                   /\ \E o \in occs : o.event_id = r.id /\ o.start = start_utc
                   /\ title_expr(r.title) = title_key})

(* the two lookups in the other order *)
ResolveEventSemanticFirst(rows, occs, c) ==
  LET bySem == get_event_by_semantic_key(rows, occs, c.source_id, c.title, c.start_utc)
      byId == get_event(rows, c.source_id, c.external_id)
  IN IF bySem # 0 THEN [id |-> bySem, how |-> "semantic"]
     ELSE IF byId # 0 THEN [id |-> byId, how |-> "id"]
     ELSE [id |-> 0, how |-> "new"]

(* lines 177-184: identifier first, semantic key only when it misses *)
ResolveEvent(rows, occs, c) ==
  LET byId == get_event(rows, c.source_id, c.external_id)
  IN IF byId # 0 THEN [id |-> byId, how |-> "id"]
     ELSE LET bySem == get_event_by_semantic_key(rows, occs, c.source_id, c.title,
                                                 c.start_utc)
          IN IF bySem # 0 THEN [id |-> bySem, how |-> "semantic"]
             ELSE [id |-> 0, how |-> "new"]


NoExc == [type |-> "none", at |-> "none"]

Raised(type, at) == [type |-> type, at |-> at]

(* lines 214-219: the attributes an update leaves in the session *)
EventUpdate(row, c) ==
  [id |-> row.id,
   title |-> c.title,
   external_id |-> IF row.external_id = NoExt THEN c.external_id ELSE row.external_id]

(* lines 187-203: the Event row a miss creates *)
NewEvent(id, c) ==
  [id |-> id, source_id |-> c.source_id, external_id |-> c.external_id,
   title |-> c.title,
   slug |-> build_event_slug(c.title, c.source_id, c.external_id),
   is_free |-> FALSE, price_text |-> NoText, status |-> "scheduled", hidden |-> FALSE]

(* lines 170-171: an end before the start is dropped *)
EndOrNone(c) ==
  IF c.end_utc # NoTime /\ c.end_utc < c.start_utc THEN NoTime ELSE c.end_utc

(* the stored venues and aliases; ingestion does not write them *)
VenueRows == << <<1, <<"H", "u", "b">>>> >>
AliasRows == << <<1, <<"t", "h", "e", " ", "h", "u", "b">>>> >>

(* lines 222-223 and 228-235: the display fields of the call *)
Display(c) ==
  [end_datetime_utc |-> EndOrNone(c), location_text |-> c.location,
   address_text |-> extract_address(c.location),
   venue_id |-> resolve_venue_id(AliasRows, VenueRows, c.location)]

NewOccurrence(id, event_id, c) ==
  [id |-> id, event_id |-> event_id, start |-> c.start_utc,
   end_datetime_utc |-> Display(c).end_datetime_utc,
   location_text |-> Display(c).location_text,
   address_text |-> Display(c).address_text,
   venue_id |-> Display(c).venue_id]

(* _get_occurrence over visible rows: is there a row with this key *)
get_occurrence(occs, event_id, start_utc) ==
  \E o \in occs : o.event_id = event_id /\ o.start = start_utc

(* the id of that row *)
OccId(occs, event_id, start_utc) ==
  (CHOOSE o \in occs : o.event_id = event_id /\ o.start = start_utc).id

(* a loaded occurrence keeps what it holds *)
OccUpdateSkipped(pending, row, c) == pending

(* lines 245-248 and 250-253: the four assignments to a loaded occurrence; *)
(* the session holds a change only where a value differs from the row      *)
OccUpdate(pending, row, c) ==
  LET d == [id |-> row.id] @@ Display(c)
      same == /\ row.end_datetime_utc = d.end_datetime_utc
              /\ row.location_text = d.location_text
              /\ row.address_text = d.address_text
              /\ row.venue_id = d.venue_id
  IN {x \in pending : x.id # row.id} \cup (IF same THEN {} ELSE {d})

(***************************************************************************)
(* upsert_event_and_occurrence, one action per statement that reads or     *)
(* flushes                                                                 *)
(***************************************************************************)
(* lines 164-168 accept every argument *)
ValidatesAnything(c) == TRUE

(* lines 164-168: start_utc, and end_utc when given, must be aware *)
Validates(c) == c.start_aware /\ (c.end_utc = NoTime \/ c.end_aware)

(* lines 164-186 and 213-219: check the arguments, resolve the event;      *)
(* update it when found                                                    *)
EvLookup(w) ==
  /\ pc[w] = "ev_lookup"
  /\ IF ~Validates(call[w])
     THEN /\ pc' = [pc EXCEPT ![w] = "raised"]
          /\ exc' = [exc EXCEPT ![w] = Raised("ValueError", "arguments")]
          /\ UNCHANGED <<ev, how, dirty>>
     ELSE IF failed[w]
     THEN /\ pc' = [pc EXCEPT ![w] = "raised"]
          /\ exc' = [exc EXCEPT ![w] = Raised("PendingRollbackError", "event_lookup")]
          /\ UNCHANGED <<ev, how, dirty>>
     ELSE LET res == ResolveEvent(EvView(w), OccView(w), call[w])
          IN /\ ev' = [ev EXCEPT ![w] = res.id]
             /\ how' = [how EXCEPT ![w] = res.how]
             /\ UNCHANGED exc
             /\ IF res.id = 0
                THEN /\ pc' = [pc EXCEPT ![w] = "ev_insert"]
                     /\ UNCHANGED dirty
                ELSE /\ pc' = [pc EXCEPT ![w] = "occ_lookup"]
                     /\ dirty' = [dirty EXCEPT ![w] =
                          {d \in @ : d.id # res.id}
                            \cup {EventUpdate(SessionRow(w, res.id), call[w])}]
  /\ UNCHANGED <<evC, evU, occC, occU, catC, catU, linkC, linkU, occDirty, failed, nextId,
                 nextOcc, feedC, feedS>>
  /\ UNCHANGED <<call, todo, cur, calls>>
  /\ UNCHANGED <<orchVars, fetchVars, venueVars, auxVars>>

(* no re-read after the rollback *)
RereadEventSkipped(w) == 0

(* line 210: the re-read after the rollback sees committed rows only *)
RereadEvent(w) == get_event(evC, call[w].source_id, call[w].external_id)

(* lines 204-212: insert the new event; on IntegrityError roll back and    *)
(* re-read by (source_id, external_id)                                     *)
EvInsert(w) ==
  /\ pc[w] = "ev_insert"
  /\ nextId <= MaxEvents
  /\ LET row == NewEvent(nextId, call[w])
     IN /\ ~FlushBlocked(w, {row}, {}, {})
        /\ nextId' = nextId + 1
        /\ IF FlushViolates(w, {row}, {}, {})
           THEN LET again == RereadEvent(w)
                IN /\ RollbackDb(w)
                   /\ ev' = [ev EXCEPT ![w] = again]
                   /\ IF again = 0
                      THEN /\ pc' = [pc EXCEPT ![w] = "raised"]
                           /\ exc' = [exc EXCEPT ![w] =
                                        Raised("IntegrityError", "event_insert")]
                           /\ UNCHANGED how
                      ELSE /\ pc' = [pc EXCEPT ![w] = "occ_lookup"]
                           /\ how' = [how EXCEPT ![w] = "reread"]
                           /\ UNCHANGED exc
           ELSE /\ FlushOk(w, {row}, {}, {})
                /\ ev' = [ev EXCEPT ![w] = nextId]
                /\ pc' = [pc EXCEPT ![w] = "occ_lookup"]
                /\ UNCHANGED <<linkU, failed, how, exc, feedS>>
  /\ UNCHANGED <<evC, occC, catC, linkC, feedC, nextOcc>>
  /\ UNCHANGED <<call, todo, cur, calls>>
  /\ UNCHANGED <<orchVars, fetchVars, venueVars, auxVars>>

(* lines 222-226 and 249-253: look the occurrence up *)
OccLookup(w) ==
  /\ pc[w] = "occ_lookup"
  /\ IF get_occurrence(OccView(w), ev[w], call[w].start_utc)
     THEN /\ pc' = [pc EXCEPT ![w] = "cats"]
          /\ occDirty' = [occDirty EXCEPT ![w] =
               OccUpdate(occDirty[w],
                         CHOOSE o \in OccView(w) :
                           o.id = OccId(OccView(w), ev[w], call[w].start_utc),
                         call[w])]
     ELSE /\ pc' = [pc EXCEPT ![w] = "occ_insert"]
          /\ UNCHANGED occDirty
  /\ todo' = [todo EXCEPT ![w] = all_categories(call[w])]
  /\ UNCHANGED <<evC, evU, occC, occU, catC, catU, linkC, linkU, dirty, failed, nextId,
                 nextOcc, feedC, feedS>>
  /\ UNCHANGED <<call, ev, how, exc, cur, calls>>
  /\ UNCHANGED <<orchVars, fetchVars, venueVars, auxVars>>

(* line 241: the re-read after the rollback sees committed rows only *)
RereadOccurrence(w) == get_occurrence(occC, ev[w], call[w].start_utc)

(* lines 227-248: insert the occurrence; on IntegrityError roll back and   *)
(* re-read by (event_id, start)                                            *)
OccInsert(w) ==
  /\ pc[w] = "occ_insert"
  /\ LET occ == NewOccurrence(nextOcc, ev[w], call[w])
     IN /\ ~FlushBlocked(w, {}, {occ}, {})
        /\ nextOcc' = nextOcc + 1
        /\ IF FlushViolates(w, {}, {occ}, {})
           THEN /\ AbortDb(w, FALSE)
                /\ IF ev[w] \in Ids(evC) /\ RereadOccurrence(w)
                   THEN /\ pc' = [pc EXCEPT ![w] = "cats"]
                        /\ occDirty' = [occDirty EXCEPT ![w] =
                             OccUpdate({},
                                       CHOOSE o \in occC :
                                         o.id = OccId(occC, ev[w], call[w].start_utc),
                                       call[w])]
                        /\ UNCHANGED exc
                   ELSE /\ pc' = [pc EXCEPT ![w] = "raised"]
                        /\ occDirty' = [occDirty EXCEPT ![w] = {}]
                        /\ exc' = [exc EXCEPT ![w] =
                              IF ev[w] \in Ids(evC)
                              THEN Raised("IntegrityError", "occurrence_insert")
                              ELSE Raised("ObjectDeletedError", "occurrence_insert")]
           ELSE /\ FlushOk(w, {}, {occ}, {})
                /\ pc' = [pc EXCEPT ![w] = "cats"]
                /\ UNCHANGED <<linkU, failed, exc, feedS>>
  /\ UNCHANGED <<evC, occC, catC, linkC, nextId, feedC>>
  /\ UNCHANGED <<call, ev, how, todo, cur, calls>>
  /\ UNCHANGED <<orchVars, fetchVars, venueVars, auxVars>>

(* categorize.py attach_category: INSERT ... ON CONFLICT DO NOTHING *)
Attach(w, name) ==
  linkU' = [linkU EXCEPT ![w] =
              IF <<ev[w], name>> \in LinkView(w) THEN @ ELSE @ \cup {<<ev[w], name>>}]

AttachBlocked(w, name) == \E v \in Others(w) : <<ev[w], name>> \in linkU[v]

(* lines 255-278 with categorize.py 324-328, 346-360: next category name,  *)
(* attached at once when its Category row is visible                       *)
Cats(w) ==
  /\ pc[w] = "cats"
  /\ IF todo[w] = {}
     THEN /\ pc' = [pc EXCEPT ![w] = "returned"]
          /\ UNCHANGED <<linkU, todo, cur>>
     ELSE \E name \in todo[w] :
            IF name \in CatView(w)
            THEN /\ ~AttachBlocked(w, name)
                 /\ Attach(w, name)
                 /\ todo' = [todo EXCEPT ![w] = @ \ {name}]
                 /\ UNCHANGED <<pc, cur>>
            ELSE /\ pc' = [pc EXCEPT ![w] = "cat_insert"]
                 /\ cur' = [cur EXCEPT ![w] = name]
                 /\ UNCHANGED <<linkU, todo>>
  /\ UNCHANGED <<evC, evU, occC, occU, catC, catU, linkC, dirty, occDirty, failed, nextId,
                 nextOcc, feedC, feedS>>
  /\ UNCHANGED <<call, ev, how, exc, calls>>
  /\ UNCHANGED <<orchVars, fetchVars, venueVars, auxVars>>

(* categorize.py 330-333 and 336-343: create the Category (flush) and link *)
(* it; an IntegrityError of this flush is not caught by the upsert         *)
CatInsert(w) ==
  /\ pc[w] = "cat_insert"
  /\ ~FlushBlocked(w, {}, {}, {cur[w]})
  /\ IF FlushViolates(w, {}, {}, {cur[w]})
     THEN /\ FlushFailed(w)
          /\ pc' = [pc EXCEPT ![w] = "raised"]
          /\ exc' = [exc EXCEPT ![w] = Raised("IntegrityError", "category_insert")]
          /\ UNCHANGED <<todo, cur>>
     ELSE /\ FlushOk(w, {}, {}, {cur[w]})
          /\ Attach(w, cur[w])
          /\ todo' = [todo EXCEPT ![w] = @ \ {cur[w]}]
          /\ cur' = [cur EXCEPT ![w] = NoText]
          /\ pc' = [pc EXCEPT ![w] = "cats"]
          /\ UNCHANGED <<failed, exc, feedS>>
  /\ UNCHANGED <<evC, occC, catC, linkC, nextId, nextOcc, feedC>>
  /\ UNCHANGED <<call, ev, how, calls>>
  /\ UNCHANGED <<orchVars, fetchVars, venueVars, auxVars>>


(***************************************************************************)
(* A caller that runs upserts in its own transaction and commits at the    *)
(* end, catching what an upsert raises per item (the collectors, the       *)
(* ingest bridge: routers/ingest_bridge.py 49-78).                         *)
(***************************************************************************)
Finished(w) == pc[w] \in {"returned", "raised"}

Call(w, c) ==
  /\ pc[w] = "idle"
  /\ calls < MaxCalls
  /\ call' = [call EXCEPT ![w] = c]
  /\ calls' = calls + 1
  /\ pc' = [pc EXCEPT ![w] = "ev_lookup"]
  /\ UNCHANGED <<ev, how, exc, todo, cur>>
  /\ UNCHANGED dbVars
  /\ UNCHANGED <<orchVars, fetchVars, venueVars, auxVars>>

(* The call is over: the caller counts the item or logs the exception *)
Return(w) ==
  /\ Finished(w)
  /\ pc' = [pc EXCEPT ![w] = "idle"]
  /\ call' = [call EXCEPT ![w] = NoCall]
  /\ ev' = [ev EXCEPT ![w] = 0]
  /\ how' = [how EXCEPT ![w] = "none"]
  /\ exc' = [exc EXCEPT ![w] = NoExc]
  /\ todo' = [todo EXCEPT ![w] = {}]
  /\ cur' = [cur EXCEPT ![w] = NoText]
  /\ UNCHANGED calls
  /\ UNCHANGED dbVars
  /\ UNCHANGED <<orchVars, fetchVars, venueVars, auxVars>>

InTxn(w) ==
  evU[w] # {} \/ occU[w] # {} \/ catU[w] # {} \/ linkU[w] # {} \/ dirty[w] # {}
    \/ occDirty[w] # {} \/ failed[w]

(* COMMIT of w's transaction after the flush of what the session holds *)
CommitDb(w) ==
  LET R == PendingUpdates(w)
      U == {u \in evU[w] : u.id \notin Ids(R)} \cup R
  IN /\ evC' = {r \in evC : r.id \notin Ids(U)} \cup U
     /\ occC' = LET Q == PendingOccUpdates(w)
                     V == {u \in occU[w] : u.id \notin Ids(Q)} \cup Q
                 IN {o \in occC : o.id \notin Ids(V)} \cup V
     /\ catC' = catC \cup catU[w]
     /\ linkC' = linkC \cup linkU[w]
     /\ evU' = [evU EXCEPT ![w] = {}]
     /\ occU' = [occU EXCEPT ![w] = {}]
     /\ catU' = [catU EXCEPT ![w] = {}]
     /\ linkU' = [linkU EXCEPT ![w] = {}]
     /\ dirty' = [dirty EXCEPT ![w] = {}]
     /\ occDirty' = [occDirty EXCEPT ![w] = {}]
     /\ feedC' = IF w = Orch THEN feedS ELSE feedC
     /\ UNCHANGED <<failed, nextId, nextOcc, feedS>>

(* db.commit(); when it raises the caller's except clause rolls back *)
Commit(w) ==
  /\ pc[w] = "idle"
  /\ InTxn(w)
  /\ ~FlushBlocked(w, {}, {}, {})
  /\ IF failed[w] \/ FlushViolates(w, {}, {}, {})
     THEN RollbackDb(w) /\ UNCHANGED <<evC, occC, catC, linkC, nextId, nextOcc, feedC>>
     ELSE CommitDb(w)
  /\ UNCHANGED callVars
  /\ UNCHANGED <<orchVars, fetchVars, venueVars, auxVars>>

(***************************************************************************)
(* Specification of the upsert engine under concurrent writers             *)
(***************************************************************************)
NoFeeds == << >>

(* Rows committed by earlier runs: an event of source 1 with occurrence at *)
(* time 1 and its category link, an event of source 1 stored without       *)
(* external_id, and an event of source 2.                                  *)
(* The first one was marked canceled and free, with a price text.          *)
SeedEvents ==
  { [id |-> 1, source_id |-> 1, external_id |-> <<"x">>, title |-> <<"A", "!">>,
     slug |-> build_event_slug(<<"A", "!">>, 1, <<"x">>),
     is_free |-> TRUE, price_text |-> <<"3">>, status |-> "canceled", hidden |-> FALSE],
    [id |-> 2, source_id |-> 1, external_id |-> NoExt, title |-> <<"a">>,
     slug |-> <<"a", "-", "0">>,
     is_free |-> FALSE, price_text |-> NoText, status |-> "scheduled", hidden |-> FALSE],
    [id |-> 3, source_id |-> 2, external_id |-> <<"y">>, title |-> <<"a">>,
     slug |-> build_event_slug(<<"a">>, 2, <<"y">>),
     is_free |-> FALSE, price_text |-> NoText, status |-> "scheduled", hidden |-> FALSE] }

SeedOccurrences ==
  {[id |-> k[1], event_id |-> k[2], start |-> k[3], end_datetime_utc |-> NoTime,
    location_text |-> NoLocation, address_text |-> NoAddress, venue_id |-> NoVenue] :
     k \in {<<1, 1, 1>>, <<2, 2, 2>>, <<3, 3, 1>>, <<4, 3, 2>>}}

InitDb ==
  /\ \/ /\ evC = {}
        /\ occC = {}
        /\ catC = {}
        /\ linkC = {}
        /\ nextId = 1
        /\ nextOcc = 1
     \/ /\ evC = SeedEvents
        /\ occC = SeedOccurrences
        /\ catC = {Comedy}
        /\ linkC = {<<1, Comedy>>}
        /\ nextId = 4
        /\ nextOcc = 5
  /\ evU = [w \in Writers |-> {}]
  /\ occU = [w \in Writers |-> {}]
  /\ catU = [w \in Writers |-> {}]
  /\ linkU = [w \in Writers |-> {}]
  /\ dirty = [w \in Writers |-> {}]
  /\ occDirty = [w \in Writers |-> {}]
  /\ failed = [w \in Writers |-> FALSE]

InitCalls ==
  /\ pc = [w \in Writers |-> "idle"]
  /\ call = [w \in Writers |-> NoCall]
  /\ ev = [w \in Writers |-> 0]
  /\ how = [w \in Writers |-> "none"]
  /\ exc = [w \in Writers |-> NoExc]
  /\ todo = [w \in Writers |-> {}]
  /\ cur = [w \in Writers |-> NoText]
  /\ calls = 0

EmptyDb ==
  /\ evC = {}
  /\ occC = {}
  /\ catC = {}
  /\ linkC = {}
  /\ nextId = 1
  /\ nextOcc = 1

(* No fetch runs *)
NoBody == << >>

NoResponse == [raised |-> FALSE, has_response |-> FALSE, status |-> 0,
               cf_mitigated |-> FALSE, html |-> FALSE, content |-> NoBody]

(* No ingest task runs: the writers are callers of the upsert engine *)
(* tasks.py 554: the default of the task's limit argument *)
DefaultLimit == 100

OrchOff ==
  /\ src = 1
  /\ bigtop = FALSE
  /\ feeds = NoFeeds
  /\ outcomes = {}
  /\ passes = 0
  /\ limit = DefaultLimit
  /\ pass = 0
  /\ opc = "idle"
  /\ items = << >>
  /\ fi = 1
  /\ ii = 1
  /\ seen = 0
  /\ ingested = 0
  /\ errors = 0
  /\ cf_challenges = 0
  /\ seen_signatures = {}
  /\ existing_signature_map = {}
  /\ events_ingested_count = 0
  /\ attempted = << >>
  /\ stats = << >>
  /\ item_results = {}

(* No caller of get_weather_payload *)
WeatherOff ==
  /\ wday = 1
  /\ reports = "none"
  /\ counterC = << >>
  /\ counterLock = [d \in 1..MaxDays |-> 0]
  /\ wpc = [p \in Clients |-> "off"]
  /\ wnow = [p \in Clients |-> 1]
  /\ wins = [p \in Clients |-> FALSE]
  /\ wcount = [p \in Clients |-> 0]
  /\ slot = [p \in Clients |-> 0]
  /\ fetchesOn = [d \in 1..MaxDays |-> 0]
  /\ fetchesFor = [d \in 1..MaxDays |-> 0]

(* No ProdApiSink *)
SinkOff ==
  /\ batch_size = 0
  /\ retries = 0
  /\ buffer = << >>
  /\ sink_source = 0
  /\ handed = 0
  /\ posted = {}
  /\ sink_op = [call |-> "none", ended |-> "none"]

(* No collector registers feeds *)
RegOff ==
  /\ source_feeds = {}
  /\ reg_now = 0
  /\ reg_call = << >>

(* No bytes are sanitized *)
AuxOff ==
  /\ ics_bytes = << >>
  /\ sanitized = << >>
  /\ spc = "off"
  /\ WeatherOff
  /\ SinkOff
  /\ RegOff

(* No call of resolve_venue_id on its own *)
VenueOff ==
  /\ location_text = NoLocation
  /\ alias_rows = << >>
  /\ venue_rows = << >>
  /\ vpc = "off"
  /\ venue_id = NoVenue

FetchOff ==
  /\ max_retries = 0
  /\ attempt = 0
  /\ requests = 0
  /\ sleeps = 0
  /\ delays = << >>
  /\ challenges = 0
  /\ fpc = "off"
  /\ resp = NoResponse
  /\ result = NoBody
  /\ error = "none"

Init ==
  /\ InitDb
  /\ InitCalls
  /\ OrchOff
  /\ FetchOff
  /\ VenueOff
  /\ AuxOff
  /\ feedC = NoFeeds
  /\ feedS = NoFeeds

UpsertStep(w) ==
  \/ EvLookup(w)
  \/ EvInsert(w)
  \/ OccLookup(w)
  \/ OccInsert(w)
  \/ Cats(w)
  \/ CatInsert(w)

Next ==
  \/ \E w \in Writers, c \in CallArgs : Call(w, c)
  \/ \E w \in Writers : UpsertStep(w)
  \/ \E w \in Writers : Return(w)
  \/ \E w \in Writers : Commit(w)

Spec == Init /\ [][Next]_vars

(* The callers while an administrator hides events: routers/admin.py       *)
(* 137-149, a transaction of its own that sets hidden and commits.  Its    *)
(* UPDATE waits while another transaction holds an uncommitted version of  *)
(* the row.                                                                *)
MaxHidden == 1

update_event_hidden(event_id, hidden) ==
  /\ hidden => Cardinality({r \in evC : r.hidden}) < MaxHidden
  /\ \E r \in evC :
       /\ r.id = event_id
       /\ r.hidden # hidden
       /\ \A v \in Writers : event_id \notin Ids(evU[v])
       /\ evC' = (evC \ {r}) \cup {[r EXCEPT !.hidden = hidden]}
  /\ UNCHANGED <<evU, occC, occU, catC, catU, linkC, linkU, dirty, occDirty, failed, nextId,
                 nextOcc, feedC, feedS>>
  /\ UNCHANGED <<callVars, orchVars, fetchVars, venueVars, auxVars>>

NextHide ==
  \/ Next
  \/ \E event_id \in 1..MaxEvents, hidden \in BOOLEAN :
       update_event_hidden(event_id, hidden)

SpecHide == Init /\ [][NextHide]_vars

(* The same callers with records that differ in what the occurrence shows: *)
(* aware or naive datetimes, an end before, at or after the start, a       *)
(* location that names a venue, one that holds an address, or none.        *)
Locations ==
  {NoLocation, <<"H", "u", "b">>, <<"H", ",", " ", "1", " ", "S", "t", ",", " ", "U", "S">>}

DisplayArgs ==
  {c \in [source_id : {1}, external_id : {<<"x">>}, title : {<<"a">>}, start_utc : Times,
          start_aware : BOOLEAN, end_utc : {NoTime} \cup Times, end_aware : BOOLEAN,
          location : Locations, categories : {<< >>}] :
     c.end_utc = NoTime => c.end_aware}

NextDisplay ==
  \/ \E w \in Writers, c \in DisplayArgs : Call(w, c)
  \/ \E w \in Writers : UpsertStep(w)
  \/ \E w \in Writers : Return(w)
  \/ \E w \in Writers : Commit(w)

SpecDisplay == Init /\ [][NextDisplay]_vars

(***************************************************************************)
(* The calendar fetcher: fetch_ics (app/ingestion/ical.py)                 *)
(***************************************************************************)
MaxRetries == 3

(* resp.text[:2000]: the part of the body searched for challenge markers,  *)
(* counted in tokens here                                                  *)
BodyPrefix == 3

(* Bodies are tuples of tokens: single bytes of the byte order mark, white *)
(* space, the two halves of the calendar signature, text.                  *)
Signature == <<"BEGIN:", "VCALENDAR">>

Bom == <<"EF", "BB", "BF">>

Bodies ==
  { Signature,
    Bom \o Signature,
    Bom \o <<" ">> \o Signature,
    <<" ">> \o Bom \o Signature,
    <<"BF">> \o Signature,
    Signature \o <<"Cloudflare">>,
    <<"BEGIN:">>,
    <<"<html>">>,
    <<"<html>", "Just a moment">> }

Statuses == {200, 304, 403, 503}

(* What session.get does: it returns a response, or raises a               *)
(* RequestException that may carry a response.                             *)
Responses ==
  [raised : {FALSE}, has_response : {TRUE}, status : Statuses,
   cf_mitigated : BOOLEAN, html : BOOLEAN, content : Bodies]
    \cup [raised : {TRUE}, has_response : {TRUE}, status : {403},
          cf_mitigated : BOOLEAN, html : {TRUE}, content : {<<"<html>">>}]
    \cup [raised : {TRUE}, has_response : {FALSE}, status : {0},
          cf_mitigated : {FALSE}, html : {FALSE}, content : {NoBody}]

LowerToken(t) ==
  IF t = "Cloudflare" THEN "cloudflare"
  ELSE IF t = "Just a moment" THEN "just a moment" ELSE t

cf_signals == {"cloudflare", "cf-browser-verification", "challenge-platform",
               "just a moment", "cf_chl_opt", "cf-ray"}

is_cloudflare_challenge(r) ==
  IF r.cf_mitigated THEN TRUE
  ELSE IF ~r.html THEN FALSE
  ELSE \E i \in 1..Len(r.content) :
         i <= BodyPrefix /\ LowerToken(r.content[i]) \in cf_signals

StartsWith(s, prefix) ==
  Len(s) >= Len(prefix) /\ SubSeq(s, 1, Len(prefix)) = prefix

(* no content test at all *)
validate_anything(content) == TRUE

(* _validate_ical_content: lstrip of the three BOM bytes, strip of white   *)
(* space, startswith                                                       *)
validate_ical_content(content) ==
  StartsWith(Strip(LStrip(content, {"EF", "BB", "BF"}), Spaces), Signature)

(* What one pass through the loop body makes of the outcome of the GET:    *)
(* lines 280-299 and 329-352 (challenge), 301 and 354-360 (HTTP or network *)
(* error), 304-317 (content check), 323 (return)                           *)
Classify(r) ==
  IF r.raised
  THEN IF r.has_response /\ is_cloudflare_challenge(r)
       THEN "challenge" ELSE "RequestException"
  ELSE IF is_cloudflare_challenge(r) THEN "challenge"
  ELSE IF 400 <= r.status /\ r.status < 600 THEN "RequestException"
  ELSE IF ~validate_ical_content(r.content) THEN "ValueError"
  ELSE "ok"

(* a loop that would also retry request exceptions *)
RetryOnAnyError(kind) == kind \in {"challenge", "RequestException"}

(* only a challenge is retried: lines 296 and 349; 354 "don't retry" *)
RetryOn(kind) == kind = "challenge"

(* one retry more than max_retries *)
MayRetryOnceMore(n, most) == n <= most

(* lines 296, 349: if attempt < max_retries *)
MayRetry(n, most) == n < most

(* ingest_source_items 237 and 252: the except clause an exception of      *)
(* fetch_ics selects                                                       *)
HandlerOutcome(exception) ==
  IF exception = "CloudflareChallengeError" THEN "challenge" ELSE "error"

(* lines 240 and 254: the status the clause writes to the feed row *)
HandlerStatus(outcome) == IF outcome = "challenge" THEN "cf_blocked" ELSE "error"

(* one iteration of the loop of lines 275-360; line 363 after the loop *)
(* Time is counted in ticks; random.uniform(0, 1) is any number of ticks   *)
(* from 0 to one second                                                    *)
TicksPerSecond == 2

(* the defaults of the arguments of fetch_ics *)
DefaultMaxRetries == 3
base_delay == 2

RECURSIVE Exp2(_)
Exp2(n) == IF n = 0 THEN 1 ELSE 2 * Exp2(n - 1)

(* a delay that does not grow with the attempt *)
DelayWithoutBackoff(n, jitter) == base_delay * TicksPerSecond + jitter

(* lines 281 and 334: base_delay * (2**attempt) + random.uniform(0, 1) *)
Delay(n, jitter) == base_delay * Exp2(n) * TicksPerSecond + jitter

FetchStep(r) ==
  /\ fpc = "run"
  /\ IF attempt > max_retries
     THEN /\ fpc' = "raised"
          /\ error' = "CloudflareChallengeError"
          /\ UNCHANGED <<attempt, requests, sleeps, delays, challenges, resp, result>>
     ELSE LET kind == Classify(r)
          IN /\ requests' = requests + 1
             /\ resp' = r
             /\ challenges' = IF kind = "challenge" THEN challenges + 1 ELSE challenges
             /\ IF kind = "ok"
                THEN /\ fpc' = "returned"
                     /\ result' = r.content
                     /\ UNCHANGED <<attempt, sleeps, delays, error>>
                ELSE IF RetryOn(kind) /\ MayRetry(attempt, max_retries)
                THEN /\ sleeps' = sleeps + 1
                     /\ \E jitter \in 0..TicksPerSecond :
                          delays' = Append(delays, Delay(attempt, jitter))
                     /\ attempt' = attempt + 1
                     /\ UNCHANGED <<fpc, result, error>>
                ELSE /\ fpc' = "raised"
                     /\ error' = IF kind = "challenge" THEN "CloudflareChallengeError"
                                 ELSE kind
                     /\ UNCHANGED <<attempt, sleeps, delays, result>>
  /\ UNCHANGED max_retries
  /\ UNCHANGED <<dbVars, callVars, orchVars, venueVars, auxVars>>

InitFetch ==
  /\ VenueOff
  /\ AuxOff
  /\ InitDb
  /\ EmptyDb
  /\ InitCalls
  /\ OrchOff
  /\ feedC = NoFeeds
  /\ feedS = NoFeeds
  /\ max_retries \in 0..MaxRetries
  /\ attempt = 0
  /\ requests = 0
  /\ sleeps = 0
  /\ delays = << >>
  /\ challenges = 0
  /\ fpc = "run"
  /\ resp = NoResponse
  /\ result = NoBody
  /\ error = "none"

NextFetch == \E r \in Responses : FetchStep(r)

SpecFetch == InitFetch /\ [][NextFetch]_vars

(***************************************************************************)
(* The feed orchestrator: ingest_source_items run by the ingest_source     *)
(* task (tasks.py 553-614) as writer Orch, in one transaction per pass.    *)
(***************************************************************************)
MaxItems == 3
NumFeeds == 2

normalize_text(value) == CollapseSpaces(Lower(Strip(value, Spaces)))

make_signature(title, start_utc) == <<normalize_text(title), start_utc>>

(* is_bigtop_rollup_feed: the feed row carries the rollup marker *)
is_bigtop_rollup_feed(f) == feeds[f].rollup

(* a list comprehension over ids: the members of ids that satisfy keep, in order *)
Filter(ids, keep(_)) == SelectSeq(ids, keep)

(* the rollup feeds moved to the front *)
rollups_first(ids) ==
  Filter(ids, LAMBDA f : is_bigtop_rollup_feed(f))
    \o Filter(ids, LAMBDA f : ~is_bigtop_rollup_feed(f))

prioritize_bigtop_feeds(ids) ==
  Filter(ids, LAMBDA f : ~is_bigtop_rollup_feed(f))
    \o Filter(ids, LAMBDA f : is_bigtop_rollup_feed(f))

(* The join of build_existing_signature_map.  The query has no ORDER BY, so *)
(* which external_id setdefault keeps for a signature is any of the         *)
(* candidates; the map is kept as the set of candidates.                    *)
build_existing_signature_map(rows, occs, source_id, start_times) ==
  {<<make_signature(r.title, o.start), r.external_id>> :
     <<r, o>> \in {p \in rows \X occs :
                     /\ p[2].event_id = p[1].id
                     /\ p[1].source_id = source_id
                     /\ p[1].external_id # NoExt
                     /\ p[2].start \in start_times}}

(* A row of source_feeds before any fetch *)
NewFeed == [status |-> "new", error |-> "", last_fetched_at |-> 0,
            events_parsed |-> 0, events_ingested |-> 0]

(* lines 138-146: the names of the VEVENT and of the feed row, each        *)
(* filtered to the registry                                                *)
explicit_cats(e, f) ==
  filter_known_categories(e.categories)
    \o (IF feeds[f].categories = NoText THEN << >>
        ELSE filter_known_categories(SplitCats(feeds[f].categories)))

ItemCall(e, external_id) ==
  [source_id |-> src, external_id |-> external_id, title |-> e.summary,
   start_utc |-> e.start_utc, start_aware |-> TRUE, end_utc |-> NoTime,
   end_aware |-> TRUE, location |-> NoLocation, categories |-> explicit_cats(e, items[fi])]

ResetCall(w) ==
  /\ pc' = [pc EXCEPT ![w] = "idle"]
  /\ call' = [call EXCEPT ![w] = NoCall]
  /\ ev' = [ev EXCEPT ![w] = 0]
  /\ how' = [how EXCEPT ![w] = "none"]
  /\ exc' = [exc EXCEPT ![w] = NoExc]
  /\ todo' = [todo EXCEPT ![w] = {}]
  /\ cur' = [cur EXCEPT ![w] = NoText]

Feed == items[fi]

(* parse_ics, ical.py 421-466: the loop over the components of the         *)
(* calendar; a component whose DTSTART or DTEND cannot be converted is      *)
(* logged and left out, the others are returned in order.                  *)
parse_ics(components) == SelectSeq(components, LAMBDA comp : comp.dates)

parsed == parse_ics(feeds[Feed].items)

runParams == <<src, bigtop, feeds, outcomes, passes, limit>>

(* tasks.py 581-588 and lines 56-92: the task starts a pass; the first     *)
(* limit feeds by ascending id are loaded (lines 63-68) and, for the       *)
(* rollup-prone source, reordered                                          *)
StartPass ==
  /\ UNCHANGED <<fetchVars, venueVars, auxVars>>
  /\ opc \in {"idle", "committed", "crashed"}
  /\ pass < passes
  /\ pass' = pass + 1
  /\ LET loaded == [i \in 1..(IF limit < Len(feeds) THEN limit ELSE Len(feeds)) |-> i]
     IN /\ items' = IF bigtop /\ Len(loaded) > 0
                    THEN prioritize_bigtop_feeds(loaded) ELSE loaded
        /\ opc' = IF Len(loaded) = 0 THEN "returned" ELSE "fetch"
  /\ fi' = 1
  /\ ii' = 1
  /\ seen' = 0
  /\ ingested' = 0
  /\ errors' = 0
  /\ cf_challenges' = 0
  /\ seen_signatures' = {}
  /\ existing_signature_map' = {}
  /\ events_ingested_count' = 0
  /\ attempted' = << >>
  /\ item_results' = {}
  /\ UNCHANGED <<runParams, stats>>
  /\ UNCHANGED <<dbVars, callVars>>

(* lines 94-118 and the handlers 237-256: fetch and parse one feed.        *)
(* outcome "ok": the calendar is parsed; "challenge": fetch_ics raised     *)
(* CloudflareChallengeError; "error": fetching or parsing raised anything  *)
(* else.                                                                   *)
FetchFeed(outcome) ==
  /\ UNCHANGED <<fetchVars, venueVars, auxVars>>
  /\ opc = "fetch"
  /\ outcome \in outcomes
  /\ seen' = seen + 1
  /\ attempted' = Append(attempted, Feed)
  /\ ii' = 1
  /\ events_ingested_count' = 0
  /\ IF outcome = "ok"
     THEN /\ existing_signature_map' =
               IF bigtop
               THEN build_existing_signature_map(EvView(Orch), OccView(Orch), src,
                      {parsed[i].start_utc : i \in 1..Len(parsed)})
               ELSE {}
          /\ opc' = "item"
          /\ UNCHANGED <<feedS, errors, cf_challenges>>
     ELSE /\ feedS' = [feedS EXCEPT ![Feed] =
                         [@ EXCEPT !.status = HandlerStatus(outcome),
                                   !.error = outcome,
                                   !.last_fetched_at = pass]]
          /\ cf_challenges' = IF outcome = "challenge" THEN cf_challenges + 1
                              ELSE cf_challenges
          /\ errors' = IF outcome = "error" THEN errors + 1 ELSE errors
          /\ opc' = "flush"
          /\ UNCHANGED existing_signature_map
  /\ UNCHANGED <<evC, evU, occC, occU, catC, catU, linkC, linkU, dirty, occDirty, failed,
                 nextId,
                 nextOcc, feedC>>
  /\ UNCHANGED <<runParams, pass, items, fi, ingested, seen_signatures, stats,
                 item_results>>
  /\ UNCHANGED callVars

(* the loop body without the duplicate test of lines 150-161 *)
NextItemNoSkip ==
  /\ UNCHANGED <<fetchVars, venueVars, auxVars>>
  /\ opc = "item"
  /\ IF ii > Len(parsed)
     THEN /\ feedS' = [feedS EXCEPT ![Feed] =
                         [status |-> "ok", error |-> "", last_fetched_at |-> pass,
                          events_parsed |-> Len(parsed),
                          events_ingested |-> events_ingested_count]]
          /\ opc' = "flush"
          /\ UNCHANGED <<ii, callVars>>
     ELSE LET e == parsed[ii]
              signature == make_signature(e.summary, e.start_utc)
              known == {p[2] : p \in {q \in existing_signature_map : q[1] = signature}}
          IN /\ \E external_id \in (IF bigtop /\ known # {} THEN known ELSE {e.uid}) :
                    call' = [call EXCEPT ![Orch] = ItemCall(e, external_id)]
             /\ pc' = [pc EXCEPT ![Orch] = "ev_lookup"]
             /\ opc' = "upsert"
             /\ UNCHANGED <<ii, feedS, ev, how, exc, todo, cur, calls>>
  /\ UNCHANGED <<evC, evU, occC, occU, catC, catU, linkC, linkU, dirty, occDirty, failed,
                 nextId,
                 nextOcc, feedC>>
  /\ UNCHANGED <<runParams, pass, items, fi, seen, ingested, errors, cf_challenges,
                 seen_signatures, existing_signature_map, events_ingested_count,
                 attempted, stats, item_results>>

(* lines 132-235: the next parsed event of the feed, or the end of the     *)
(* list.  A rollup-prone source skips a signature already ingested in this *)
(* run and reuses the external_id stored for a known signature.            *)
NextItem ==
  /\ UNCHANGED <<fetchVars, venueVars, auxVars>>
  /\ opc = "item"
  /\ IF ii > Len(parsed)
     THEN /\ feedS' = [feedS EXCEPT ![Feed] =
                         [status |-> "ok", error |-> "", last_fetched_at |-> pass,
                          events_parsed |-> Len(parsed),
                          events_ingested |-> events_ingested_count]]
          /\ opc' = "flush"
          /\ UNCHANGED <<ii, callVars>>
     ELSE LET e == parsed[ii]
              signature == make_signature(e.summary, e.start_utc)
              known == {p[2] : p \in {q \in existing_signature_map : q[1] = signature}}
          IN IF bigtop /\ signature \in seen_signatures
             THEN /\ ii' = ii + 1
                  /\ UNCHANGED <<opc, feedS, callVars>>
             ELSE /\ \E external_id \in (IF bigtop /\ known # {} THEN known ELSE {e.uid}) :
                       call' = [call EXCEPT ![Orch] = ItemCall(e, external_id)]
                  /\ pc' = [pc EXCEPT ![Orch] = "ev_lookup"]
                  /\ opc' = "upsert"
                  /\ UNCHANGED <<ii, feedS, ev, how, exc, todo, cur, calls>>
  /\ UNCHANGED <<evC, evU, occC, occU, catC, catU, linkC, linkU, dirty, occDirty, failed,
                 nextId,
                 nextOcc, feedC>>
  /\ UNCHANGED <<runParams, pass, items, fi, seen, ingested, errors, cf_challenges,
                 seen_signatures, existing_signature_map, events_ingested_count,
                 attempted, stats, item_results>>

(* the upsert call is over: lines 192-195 and 225-228 count the event; an  *)
(* exception leaves the loop over the parsed events for the handler of     *)
(* lines 252-256                                                           *)
AfterUpsert ==
  /\ UNCHANGED <<fetchVars, venueVars, auxVars>>
  /\ opc = "upsert"
  /\ Finished(Orch)
  /\ IF pc[Orch] = "returned"
     THEN /\ events_ingested_count' = events_ingested_count + 1
          /\ ingested' = ingested + 1
          /\ seen_signatures' =
               IF bigtop
               THEN seen_signatures
                      \cup {make_signature(call[Orch].title, call[Orch].start_utc)}
               ELSE seen_signatures
          /\ ii' = ii + 1
          /\ opc' = "item"
          /\ UNCHANGED <<feedS, errors>>
     ELSE /\ feedS' = [feedS EXCEPT ![Feed] =
                         [@ EXCEPT !.status = "error", !.error = exc[Orch].type,
                                   !.last_fetched_at = pass]]
          /\ errors' = errors + 1
          /\ opc' = "flush"
          /\ UNCHANGED <<events_ingested_count, ingested, seen_signatures, ii>>
  /\ item_results' = item_results \cup {<<Feed, ii, pc[Orch]>>}
  /\ ResetCall(Orch)
  /\ UNCHANGED calls
  /\ UNCHANGED <<evC, evU, occC, occU, catC, catU, linkC, linkU, dirty, occDirty, failed,
                 nextId,
                 nextOcc, feedC>>
  /\ UNCHANGED <<runParams, pass, items, fi, seen, cf_challenges, existing_signature_map,
                 attempted, stats>>

(* a feed end that commits instead of flushing *)
FlushFeedAndCommit ==
  /\ CommitDb(Orch)
  /\ fi' = fi + 1
  /\ opc' = IF fi + 1 > Len(items) THEN "returned" ELSE "fetch"

(* line 269, outside the try block: db.flush() after every feed.  When it  *)
(* raises, the exception leaves ingest_source_items and the task's except  *)
(* clause rolls back (tasks.py 602-603).                                   *)
FlushFeed ==
  /\ ~FlushBlocked(Orch, {}, {}, {})
  /\ IF failed[Orch] \/ FlushViolates(Orch, {}, {}, {})
     THEN /\ RollbackDb(Orch)
          /\ opc' = "aborted"
          /\ UNCHANGED <<fi, evC, occC, catC, linkC, feedC, nextId, nextOcc>>
     ELSE /\ FlushOk(Orch, {}, {}, {})
          /\ fi' = fi + 1
          /\ opc' = IF fi + 1 > Len(items) THEN "returned" ELSE "fetch"
          /\ UNCHANGED <<evC, occC, catC, linkC, linkU, failed, feedC, feedS, nextId,
                         nextOcc>>

EndOfFeed ==
  /\ UNCHANGED <<fetchVars, venueVars, auxVars>>
  /\ opc = "flush"
  /\ FlushFeed
  /\ UNCHANGED <<runParams, pass, items, ii, seen, ingested, errors, cf_challenges,
                 seen_signatures, existing_signature_map, events_ingested_count,
                 attempted, stats, item_results>>
  /\ UNCHANGED callVars

RowCounts(evs, occs, links) == <<Cardinality(evs), Cardinality(occs), Cardinality(links)>>

(* lines 290-295 return the counters; tasks.py 589 commits the pass *)
CommitPass ==
  /\ UNCHANGED <<fetchVars, venueVars, auxVars>>
  /\ opc = "returned"
  /\ ~FlushBlocked(Orch, {}, {}, {})
  /\ IF failed[Orch] \/ FlushViolates(Orch, {}, {}, {})
     THEN /\ RollbackDb(Orch)
          /\ opc' = "aborted"
          /\ UNCHANGED <<evC, occC, catC, linkC, feedC, nextId, nextOcc, stats>>
     ELSE /\ CommitDb(Orch)
          /\ opc' = "committed"
          /\ stats' = Append(stats, RowCounts(evC', occC', linkC'))
  /\ UNCHANGED <<runParams, pass, items, fi, ii, seen, ingested, errors, cf_challenges,
                 seen_signatures, existing_signature_map, events_ingested_count,
                 attempted, item_results>>
  /\ UNCHANGED callVars

(* The process dies between two feeds: the server ends its transaction     *)
(* without commit.                                                         *)
Crash ==
  /\ UNCHANGED <<fetchVars, venueVars, auxVars>>
  /\ opc = "fetch"
  /\ AbortDb(Orch, FALSE)
  /\ occDirty' = [occDirty EXCEPT ![Orch] = {}]
  /\ opc' = "crashed"
  /\ UNCHANGED <<evC, occC, catC, linkC, feedC, nextId, nextOcc>>
  /\ UNCHANGED <<runParams, pass, items, fi, ii, seen, ingested, errors, cf_challenges,
                 seen_signatures, existing_signature_map, events_ingested_count,
                 attempted, stats, item_results>>
  /\ UNCHANGED callVars

(***************************************************************************)
(* Runs of the orchestrator                                                *)
(***************************************************************************)
(* VEVENT components whose dates convert *)
ParsedEvents(uids, titles, times) ==
  {[uid |-> x, summary |-> t, start_utc |-> d, dates |-> TRUE, categories |-> << >>] :
     x \in uids, t \in titles, d \in times}

(* VEVENT components, with or without convertible dates *)
Components(uids, titles, times) ==
  {[uid |-> x, summary |-> t, start_utc |-> d, dates |-> b, categories |-> << >>] :
     x \in uids, t \in titles, d \in times, b \in BOOLEAN}

SeqsUpTo(S, n) == UNION {[1..k -> S] : k \in 0..n}

(* the ways to cut a list of k events into NumFeeds consecutive parts *)
Cuts(k) ==
  {c \in [0..NumFeeds -> 0..k] :
     /\ c[0] = 0
     /\ c[NumFeeds] = k
     /\ \A f \in 1..NumFeeds : c[f - 1] <= c[f]}

(* NumFeeds feed rows holding at most n parsed events altogether *)
FeedLists(E, n) ==
  UNION {{[f \in 1..NumFeeds |->
             [rollup |-> rollup[f], categories |-> NoText,
              items |-> SubSeq(all, c[f - 1] + 1, c[f])]] :
            c \in Cuts(Len(all)), rollup \in [1..NumFeeds -> BOOLEAN]} :
         all \in SeqsUpTo(E, n)}

InitOrchLimit(S, B, F, O, P, L) ==
  /\ src \in S
  /\ bigtop \in B
  /\ feeds \in F
  /\ outcomes = O
  /\ passes = P
  /\ limit \in L
  /\ pass = 0
  /\ opc = "idle"
  /\ items = << >>
  /\ fi = 1
  /\ ii = 1
  /\ seen = 0
  /\ ingested = 0
  /\ errors = 0
  /\ cf_challenges = 0
  /\ seen_signatures = {}
  /\ existing_signature_map = {}
  /\ events_ingested_count = 0
  /\ attempted = << >>
  /\ stats = << >>
  /\ item_results = {}
  /\ feedC = [f \in 1..Len(feeds) |-> NewFeed]
  /\ feedS = feedC

(* the task run with its default limit *)
InitOrch(S, B, F, O, P) == InitOrchLimit(S, B, F, O, P, {DefaultLimit})

Pass ==
  \/ StartPass
  \/ \E outcome \in {"ok", "challenge", "error"} : FetchFeed(outcome)
  \/ NextItem
  \/ UpsertStep(Orch)
  \/ AfterUpsert
  \/ EndOfFeed
  \/ CommitPass

(* Two passes over unchanged feed content, no other writer *)
InitTwice ==
  /\ FetchOff
  /\ VenueOff
  /\ AuxOff
  /\ InitDb
  /\ EmptyDb
  /\ InitCalls
  /\ InitOrch({1}, BOOLEAN,
              FeedLists(ParsedEvents({<<"x">>, <<"y">>}, {<<"a">>}, {1, 2}), MaxItems),
              {"ok"}, 2)

SpecTwice == InitTwice /\ [][Pass]_vars

(* One pass with every fetch outcome and a crash between feeds *)
InitIngest ==
  /\ FetchOff
  /\ VenueOff
  /\ AuxOff
  /\ InitDb
  /\ EmptyDb
  /\ InitCalls
  /\ InitOrch({1}, BOOLEAN,
              FeedLists(ParsedEvents({<<"x">>, <<"y">>}, {<<"a">>, <<"A">>}, {1}),
                        MaxItems),
              {"ok", "challenge", "error"}, 1)

NextIngest == Pass \/ Crash

SpecIngest == InitIngest /\ [][NextIngest]_vars

(* Passes over one to MaxFeeds feeds, rollup or not, each serving nothing  *)
(* or one event, with a limit below, at or above the number of feeds       *)
MaxFeeds == 3

OrderFeeds ==
  UNION {[1..n -> {[rollup |-> r, categories |-> NoText, items |-> it] :
                     r \in BOOLEAN,
                     it \in {<< >>} \cup
                            {<<e>> : e \in ParsedEvents({<<"x">>}, {<<"a">>}, {1})}}] :
         n \in 1..MaxFeeds}

InitOrder ==
  /\ FetchOff
  /\ VenueOff
  /\ AuxOff
  /\ InitDb
  /\ EmptyDb
  /\ InitCalls
  /\ InitOrchLimit({1}, BOOLEAN, OrderFeeds, {"ok"}, 2, 1..MaxFeeds)

SpecOrder == InitOrder /\ [][Pass]_vars

(* The task run again and again, without end, for one source with a fixed  *)
(* limit.  The scheduler starts each pass and a started pass runs to its   *)
(* end.                                                                    *)
RepeatFeeds ==
  {[i \in 1..n |-> [rollup |-> FALSE, categories |-> NoText, items |-> <<e>>]] :
     n \in 1..MaxFeeds, e \in ParsedEvents({<<"x">>}, {<<"a">>}, {1})}

InitRepeat ==
  /\ FetchOff
  /\ VenueOff
  /\ AuxOff
  /\ InitDb
  /\ EmptyDb
  /\ InitCalls
  /\ InitOrchLimit({1}, BOOLEAN, RepeatFeeds, {"ok"}, 2, 1..MaxFeeds)

(* tasks.py 553-614 under the beat schedule: the task is run again after    *)
(* the last counted pass; the pass number is only the label of its time    *)
(* and the result of the oldest run is forgotten                           *)
Reschedule ==
  /\ opc = "committed"
  /\ pass = passes
  /\ pass' = pass - 1
  /\ stats' = Tail(stats)
  /\ UNCHANGED <<src, bigtop, feeds, outcomes, passes, limit, opc, items, fi, ii, seen, ingested,
                 errors, cf_challenges, seen_signatures, existing_signature_map,
                 events_ingested_count, attempted, item_results>>
  /\ UNCHANGED <<dbVars, callVars, fetchVars, venueVars, auxVars>>

NextRepeat ==
  \/ Pass
  \/ Reschedule

SpecRepeat == InitRepeat /\ [][NextRepeat]_vars /\ WF_vars(NextRepeat)

(* One pass over two feeds of one event each while another writer (a       *)
(* collector, the ingest bridge, the task of another source) runs one      *)
(* upsert in its own transaction                                           *)
RaceFeeds ==
  {<<[rollup |-> FALSE, categories |-> NoText, items |-> <<e1>>],
     [rollup |-> FALSE, categories |-> NoText, items |-> <<e2>>]>> :
     e1 \in ParsedEvents({<<"y">>}, {<<"a">>}, {1, 2}),
     e2 \in ParsedEvents({<<"x">>}, {<<"a">>}, {1})}

InitRace ==
  /\ FetchOff
  /\ VenueOff
  /\ AuxOff
  /\ InitDb
  /\ pc = [w \in Writers |-> "idle"]
  /\ call = [w \in Writers |-> NoCall]
  /\ ev = [w \in Writers |-> 0]
  /\ how = [w \in Writers |-> "none"]
  /\ exc = [w \in Writers |-> NoExc]
  /\ todo = [w \in Writers |-> {}]
  /\ cur = [w \in Writers |-> NoText]
  /\ calls = MaxCalls - 1
  /\ InitOrch({1}, {FALSE}, RaceFeeds, {"ok", "challenge", "error"}, 1)

NextRace ==
  \/ Pass
  \/ \E w \in Others(Orch), c \in CallArgs : Call(w, c)
  \/ \E w \in Others(Orch) : UpsertStep(w)
  \/ \E w \in Others(Orch) : Return(w)
  \/ \E w \in Others(Orch) : Commit(w)

SpecRace == InitRace /\ [][NextRace]_vars

(* One pass of a source that is not rollup-prone over feeds that are all   *)
(* fetched, whose components may have unconvertible dates; no other writer *)
InitItems ==
  /\ FetchOff
  /\ VenueOff
  /\ AuxOff
  /\ InitDb
  /\ EmptyDb
  /\ InitCalls
  /\ InitOrch({1}, {FALSE},
              {F \in FeedLists(Components({<<"x">>, <<"x", "@", "y">>}, {<<"a">>}, {1, 2}),
                               MaxItems) :
                 \A f \in 1..NumFeeds : ~F[f].rollup},
              {"ok"}, 1)

SpecItems == InitItems /\ [][Pass]_vars

(* One pass over feeds whose rows and VEVENTs name categories: a name of   *)
(* the registry in another case and with blanks, a name that is not in the *)
(* registry, or none; source 2 has no default categories.                  *)
RawNames == {<<"x", "y">>, <<" ", "C", "O", "M", "E", "D", "Y">>}

FeedCategories ==
  {NoText, <<"x", "y">>, <<"x", "y", ",", " ", "c", "o", "m", "e", "d", "y", " ">>}

CatEvents ==
  {[uid |-> x, summary |-> t, start_utc |-> 1, dates |-> TRUE, categories |-> c] :
     x \in {<<"x">>, <<"y">>},
     t \in {<<"a">>, <<"C", "o", "m", "e", "d", "y", "!">>},
     c \in SeqsUpTo(RawNames, 1)}

CatFeeds ==
  [1..NumFeeds -> [rollup : {FALSE}, categories : FeedCategories,
                   items : SeqsUpTo(CatEvents, 1)]]

InitCats ==
  /\ FetchOff
  /\ VenueOff
  /\ AuxOff
  /\ InitDb
  /\ EmptyDb
  /\ InitCalls
  /\ InitOrch({1, 2}, {FALSE}, CatFeeds, {"ok"}, 1)

SpecCats == InitCats /\ [][Pass]_vars



(***************************************************************************)
(* Properties                                                              *)
(***************************************************************************)
AllEvents == evC \cup UNION {evU[w] : w \in Writers}

AllOccurrences == occC \cup UNION {occU[w] : w \in Writers}

(* C1: in every reachable storage state no two Event rows share a non-null *)
(* (source_id, external_id) and no two EventOccurrence rows share          *)
(* (event_id, start_datetime_utc), whatever the order, repetition and      *)
(* interleaving of the upsert calls.                                       *)
C1_UniqueIdentifiers ==
  /\ \A r, o \in AllEvents :
       (r.id # o.id /\ r.external_id # NoExt /\ r.source_id = o.source_id)
         => r.external_id # o.external_id
  /\ \A r, o \in AllOccurrences :
       (r.id # o.id /\ r.event_id = o.event_id) => r.start # o.start

(* Two writers have both finished an upsert of the same identifier and     *)
(* start time, and the occurrence is stored.                               *)
C1_Witness ==
  \E w \in Writers : \E v \in Others(w) :
    /\ pc[w] = "returned" /\ pc[v] = "returned"
    /\ call[w].external_id = call[v].external_id
    /\ call[w].start_utc = call[v].start_utc
    /\ ev[w] = ev[v]
    /\ get_occurrence(AllOccurrences, ev[w], call[w].start_utc)

(* C3 as stated: a uniqueness violation on the event insert or on the      *)
(* occurrence insert never reaches the caller.                             *)
C3_NeverPropagated ==
  \A w \in Writers :
    ~(pc[w] = "raised" /\ exc[w].type = "IntegrityError"
        /\ exc[w].at \in {"event_insert", "occurrence_insert"})

(* C3 amended: when the insert's flush is refused and a committed row with *)
(* the call's natural key exists, the call rolls back, re-reads that row   *)
(* and goes on with it; nothing is raised at that step.                    *)
C3_RecoversWhenRowExists ==
  [][\A w \in Writers :
       /\ (/\ pc[w] = "ev_insert"
           /\ pc'[w] # "ev_insert"
           /\ \E r \in evC : /\ r.source_id = call[w].source_id
                             /\ r.external_id = call[w].external_id)
            => (/\ pc'[w] = "occ_lookup"
                /\ \E r \in evC : /\ r.id = ev'[w]
                                  /\ r.source_id = call[w].source_id
                                  /\ r.external_id = call[w].external_id)
       /\ (/\ pc[w] = "occ_insert"
           /\ pc'[w] # "occ_insert"
           /\ ev[w] \in Ids(evC)
           /\ \E o \in occC : o.event_id = ev[w] /\ o.start = call[w].start_utc)
            => pc'[w] = "cats"]_vars

(* A call lost the event-insert race and holds the winner's row.           *)
C3_Witness ==
  \E w \in Writers :
    /\ how[w] = "reread"
    /\ pc[w] = "returned"
    /\ \E r \in evC : r.id = ev[w] /\ r.external_id = call[w].external_id

(* C5: the identifier lookup decides first; the semantic key is used only  *)
(* when it misses and only inside the call's source; a row is created only *)
(* when both miss.                                                         *)
SemanticCandidates(w) ==
  {r \in EvView(w) :
     /\ r.source_id = call[w].source_id
     /\ normalize_title_key(call[w].title) # << >>
     /\ title_expr(r.title) = normalize_title_key(call[w].title)
     /\ \E o \in OccView(w) : o.event_id = r.id /\ o.start = call[w].start_utc}

IdCandidates(w) ==
  {r \in EvView(w) :
     r.source_id = call[w].source_id /\ r.external_id = call[w].external_id}

C5_ResolutionOrder ==
  [][\A w \in Writers :
       (pc[w] = "ev_lookup" /\ pc'[w] # "ev_lookup" /\ ~failed[w]) =>
         /\ IdCandidates(w) # {} => ev'[w] \in Ids(IdCandidates(w))
         /\ (IdCandidates(w) = {} /\ SemanticCandidates(w) # {})
              => ev'[w] \in Ids(SemanticCandidates(w))
         /\ (IdCandidates(w) = {} /\ SemanticCandidates(w) = {}) => ev'[w] = 0
         /\ (pc'[w] = "ev_insert") <=> (ev'[w] = 0)]_vars

(* The call resolved by identifier although another event of the source    *)
(* matches its semantic key.                                               *)
C5_Witness ==
  \E w \in Writers :
    /\ pc[w] = "occ_lookup"
    /\ how[w] = "id"
    /\ \E r \in SemanticCandidates(w) : r.id # ev[w]

EarlierSighting(e) ==
  \E k \in 1..(fi - 1) :
    /\ ~feeds[items[k]].rollup
    /\ feedS[items[k]].status = "ok"
    /\ \E j \in 1..Len(feeds[items[k]].items) :
         LET p == feeds[items[k]].items[j]
         IN /\ p.uid # e.uid
            /\ make_signature(p.summary, p.start_utc)
                 = make_signature(e.summary, e.start_utc)
            /\ \E r \in EvView(Orch) :
                 /\ r.source_id = src
                 /\ r.external_id = p.uid
                 /\ get_occurrence(OccView(Orch), r.id, p.start_utc)

(* The orchestrator of a rollup-prone source is about to handle an event   *)
(* of a rollup feed that a per-item feed of this run already produced      *)
(* under another identifier.                                               *)
RollupSighting ==
  /\ bigtop
  /\ opc = "item"
  /\ ii <= Len(parsed)
  /\ feeds[Feed].rollup
  /\ EarlierSighting(parsed[ii])

(* C4 as stated: the rollup sighting updates the event the per-item feed   *)
(* produced (an upsert resolving to it is run), no second Event row is     *)
(* created and the pair is counted at most once.                           *)
C4_RollupSightingUpdates ==
  [][RollupSighting =>
       /\ opc' = "upsert"
       /\ get_event(EvView(Orch), src, call'[Orch].external_id) # 0]_vars

(* C4 amended: the rollup sighting is skipped: no upsert is run for it,    *)
(* the stored rows stay as the per-item feed wrote them, no Event row is   *)
(* created and the sighting is not counted in events_ingested.             *)
C4_RollupSightingSkipped ==
  [][RollupSighting =>
       /\ opc' = "item"
       /\ ii' = ii + 1
       /\ UNCHANGED <<dbVars, callVars>>
       /\ UNCHANGED <<ingested, events_ingested_count, seen_signatures>>]_vars

(* Both events of a rollup feed repeated the title and time of an event a  *)
(* per-item feed produced, and neither was counted.                        *)
C4_Witness ==
  /\ bigtop
  /\ opc = "item"
  /\ feeds[Feed].rollup
  /\ Len(parsed) = 2
  /\ ii = 3
  /\ events_ingested_count = 0
  /\ parsed[1].summary # feeds[items[1]].items[1].summary
  /\ EarlierSighting(parsed[1])
  /\ EarlierSighting(parsed[2])
  /\ Cardinality(EvView(Orch)) = 1

(* C6 as stated: a failure on one feed never aborts the batch; when the    *)
(* function returns, every loaded feed was attempted once, in order, and   *)
(* feeds_seen is the number of feeds loaded.                               *)
C6_NeverAborts ==
  /\ opc # "aborted"
  /\ opc \in {"returned", "committed"} => (attempted = items /\ seen = Len(feeds))

(* C7 as stated: what the pass flushed for the feeds before the crash is   *)
(* still stored after the crash.                                           *)
C7_FlushedFeedsDurable ==
  [][(opc = "fetch" /\ opc' = "crashed") =>
       /\ evU[Orch] \subseteq evC'
       /\ occU[Orch] \subseteq occC']_vars

(* C7 amended: after a crash in the middle of the pass the storage holds    *)
(* what was committed before the pass began (here: nothing) and none of    *)
(* the rows the pass flushed; no feed row shows a fetch.                   *)
C7_CrashKeepsOnlyCommitted ==
  opc = "crashed" =>
    /\ evC = {} /\ occC = {} /\ linkC = {}
    /\ evU[Orch] = {} /\ occU[Orch] = {} /\ linkU[Orch] = {}
    /\ \A f \in 1..Len(feeds) : feedC[f] = NewFeed /\ feedS[f] = NewFeed

(* The process crashed after the first feed was ingested and flushed.      *)
C7_Witness ==
  /\ opc = "crashed"
  /\ fi = 2
  /\ ingested > 0


(* C8: fetch_ics issues at most 1 + max_retries requests; when every       *)
(* response is a challenge it sleeps exactly max_retries times and then    *)
(* ends by raising CloudflareChallengeError; it never returns the body of  *)
(* a response detected as a challenge.                                     *)
C8_BoundedRetries ==
  /\ requests <= 1 + max_retries
  /\ (challenges = requests /\ requests > 0) =>
       /\ sleeps = (IF fpc = "run" THEN requests ELSE max_retries)
       /\ fpc # "returned"
       /\ fpc = "raised" => (error = "CloudflareChallengeError"
                               /\ requests = 1 + max_retries)
       /\ requests = 1 + max_retries => fpc = "raised"
  /\ fpc = "returned" => (result = resp.content /\ ~is_cloudflare_challenge(resp))

(* Every response was a challenge and the retries are used up.             *)
C8_Witness ==
  /\ max_retries = MaxRetries
  /\ fpc = "raised"
  /\ error = "CloudflareChallengeError"
  /\ challenges = 1 + max_retries
  /\ sleeps = max_retries

(* content is the signature after an optional byte order mark and optional *)
(* white space                                                             *)
BeginsWithSignature(content) ==
  \E b \in {<< >>, Bom} : \E n \in 0..Len(content) :
    /\ StartsWith(content, b)
    /\ n >= Len(b)
    /\ \A k \in (Len(b) + 1)..n : IsSpace(content[k])
    /\ StartsWith(SubSeq(content, n + 1, Len(content)), Signature)

(* content is the signature after any run of the bytes EF, BB, BF and      *)
(* optional white space                                                    *)
BeginsWithSignatureLoosely(content) ==
  \E m \in 0..Len(content) : \E n \in m..Len(content) :
    /\ \A k \in 1..m : content[k] \in {"EF", "BB", "BF"}
    /\ \A k \in (m + 1)..n : IsSpace(content[k])
    /\ StartsWith(SubSeq(content, n + 1, Len(content)), Signature)

(* the step issued a GET that returned a response, not detected as a       *)
(* challenge, with a status in S                                           *)
Answered(S) ==
  /\ requests' = requests + 1
  /\ ~resp'.raised
  /\ resp'.status \in S
  /\ ~is_cloudflare_challenge(resp')

(* C9 as stated: what fetch_ics returns comes from a 2xx response that is  *)
(* no challenge and begins, after an optional BOM and white space, with    *)
(* BEGIN:VCALENDAR; a 2xx non-challenge response without that signature    *)
(* makes it raise ValueError.                                              *)
C9_Only2xxCalendar ==
  [][/\ fpc' = "returned" =>
          /\ Answered(200..299)
          /\ result' = resp'.content
          /\ BeginsWithSignature(result')
     /\ (Answered(200..299) /\ ~BeginsWithSignature(resp'.content)) =>
          (fpc' = "raised" /\ error' = "ValueError")]_vars

(* C9 amended: what fetch_ics returns comes from a response with a status  *)
(* outside 400..599 that is no challenge and begins, after any leading     *)
(* bytes of the BOM and white space, with BEGIN:VCALENDAR; such a response *)
(* without that signature makes it raise ValueError.                       *)
C9_OnlyNonErrorCalendar ==
  [][/\ fpc' = "returned" =>
          /\ Answered(Statuses \ (400..599))
          /\ result' = resp'.content
          /\ BeginsWithSignatureLoosely(result')
     /\ (Answered(Statuses \ (400..599)) /\ ~BeginsWithSignatureLoosely(resp'.content)) =>
          (fpc' = "raised" /\ error' = "ValueError" /\ result' = NoBody)]_vars

(* fetch_ics returned the calendar body of a response whose status is not  *)
(* 2xx.                                                                    *)
C9_Witness ==
  /\ fpc = "returned"
  /\ resp.status \notin 200..299
  /\ result = resp.content
  /\ BeginsWithSignature(result)

(* the step issued a GET that failed with a request exception that is no   *)
(* challenge: a network error, or an HTTP error status                     *)
TransientError ==
  /\ requests' = requests + 1
  /\ \/ resp'.raised /\ ~resp'.has_response
     \/ resp'.has_response /\ ~is_cloudflare_challenge(resp')
          /\ (resp'.raised \/ resp'.status \in 400..599)

(* C10 as stated: a request exception that is no challenge is retried by   *)
(* the backoff loop and surfaces only when the retries are exhausted; the  *)
(* orchestrator then records status error.                                 *)
C10_TransientRetried ==
  [][TransientError =>
       IF attempt < max_retries
       THEN fpc' = "run" /\ sleeps' = sleeps + 1
       ELSE /\ fpc' = "raised"
            /\ HandlerStatus(HandlerOutcome(error')) = "error"]_vars

(* C10 amended: a request exception that is no challenge is not retried:   *)
(* fetch_ics re-raises it at once, without sleeping, whatever retries are  *)
(* left, and the orchestrator records the feed with status error.          *)
C10_TransientRaisedAtOnce ==
  [][TransientError =>
       /\ fpc' = "raised"
       /\ error' = "RequestException"
       /\ sleeps' = sleeps
       /\ attempt' = attempt
       /\ HandlerStatus(HandlerOutcome(error')) = "error"]_vars

(* The first GET failed on the network while retries were left, and        *)
(* fetch_ics raised.                                                       *)
C10_Witness ==
  /\ fpc = "raised"
  /\ error = "RequestException"
  /\ resp.raised /\ ~resp.has_response
  /\ requests = 1
  /\ sleeps = 0
  /\ max_retries = MaxRetries

(***************************************************************************)
(* resolve_venue_id on its own: location texts around the threshold of the *)
(* fuzzy layer, against venue and alias tables in every row order          *)
(***************************************************************************)
MaxVenues == 3

RECURSIVE Repeat(_, _)
Repeat(c, n) == IF n = 0 THEN << >> ELSE <<c>> \o Repeat(c, n - 1)

(* n times "a" followed by m times c *)
Text(n, c, m) == Repeat("a", n) \o Repeat(c, m)

(* venues <<id, name>>: the names of 1 and 2 differ in their last three    *)
(* characters, the name of 3 has one more "a" than that of 1               *)
KnownVenues ==
  {<<1, Text(17, "B", 3)>>, <<2, Text(17, "c", 3)>>, <<3, Text(18, "b", 2)>>}

(* aliases <<venue_id, alias_normalized>> *)
KnownAliases == {<<2, Text(21, "b", 4)>>, <<3, Text(17, "y", 3)>>}

(* the sequences without repetition over S of at most n rows *)
Orders(S, n) ==
  {q \in SeqsUpTo(S, n) : \A i \in 1..Len(q), j \in 1..Len(q) : i # j => q[i] # q[j]}

LocationTexts ==
  {NoLocation, <<" ">>, Text(17, "x", 3), Text(16, "x", 4), Text(18, "x", 2),
   Text(21, "x", 4), <<" ">> \o Text(17, "b", 3) \o <<"!">>, Text(21, "B", 4)}

Resolve ==
  /\ vpc = "call"
  /\ venue_id' = resolve_venue_id(alias_rows, venue_rows, location_text)
  /\ vpc' = "done"
  /\ UNCHANGED <<location_text, alias_rows, venue_rows>>
  /\ UNCHANGED <<dbVars, callVars, orchVars, fetchVars, auxVars>>

InitVenue ==
  /\ AuxOff
  /\ InitDb
  /\ EmptyDb
  /\ InitCalls
  /\ OrchOff
  /\ FetchOff
  /\ feedC = NoFeeds
  /\ feedS = NoFeeds
  /\ location_text \in LocationTexts
  /\ alias_rows \in Orders(KnownAliases, MaxVenues)
  /\ venue_rows \in Orders(KnownVenues, MaxVenues)
  /\ vpc = "call"
  /\ venue_id = NoVenue

SpecVenue == InitVenue /\ [][Resolve]_vars

(***************************************************************************)
(* Containment of item failures                                            *)
(***************************************************************************)
(* the indices of the parsed events of feed f whose upsert ended with r *)
ItemsEnded(f, r) == {t[2] : t \in {u \in item_results : u[1] = f /\ u[3] = r}}

(* C11: when handling one item of a feed fails (unconvertible dates, or    *)
(* its upsert raises), every other item of the same feed is still ingested *)
(* and the items of later feeds are still processed: when the pass has     *)
(* gone through its feeds, every component with convertible dates of every *)
(* feed has had its upsert call, and each one whose call returned has its  *)
(* occurrence in what the pass holds.                                      *)
C11_ItemFailureContained ==
  opc \in {"returned", "committed"} =>
    \A f \in 1..Len(feeds) :
      /\ ItemsEnded(f, "returned") \cup ItemsEnded(f, "raised")
           = 1..Len(parse_ics(feeds[f].items))
      /\ \A i \in ItemsEnded(f, "returned") :
           \E r \in EvView(Orch), o \in OccView(Orch) :
             /\ r.source_id = src
             /\ o.event_id = r.id
             /\ o.start = parse_ics(feeds[f].items)[i].start_utc

(* The part that the parser gives: a component with unconvertible dates is *)
(* left out and the components after it reach the upsert engine.           *)
C11_DateFailureContained ==
  \A f \in 1..Len(feeds) :
    (f \in {attempted[k] : k \in 1..Len(attempted)} /\ feedS[f].status = "ok") =>
      ItemsEnded(f, "returned") = 1..Len(parse_ics(feeds[f].items))

C11_DateWitness ==
  \E f \in 1..Len(feeds) :
    /\ feedS[f].status = "ok"
    /\ Len(feeds[f].items) = 3
    /\ ~feeds[f].items[1].dates
    /\ ItemsEnded(f, "returned") = {1, 2}

(***************************************************************************)
(* Arguments of the upsert engine                                          *)
(***************************************************************************)
NaiveArgs(c) == ~c.start_aware \/ (c.end_utc # NoTime /\ ~c.end_aware)

EndBeforeStart(c) == ~NaiveArgs(c) /\ c.end_utc # NoTime /\ c.end_utc < c.start_utc

(* C12: a call with a naive start_utc, or with a naive end_utc that is not *)
(* None, raises ValueError in its first step and leaves every table and    *)
(* the session as they were; a call with aware values and end_utc before   *)
(* start_utc never raises ValueError and, when it returns, its occurrence  *)
(* has no end time.                                                        *)
C12_NaiveRejectedEndDropped ==
  /\ [][\A w \in Writers :
          (pc[w] = "ev_lookup" /\ pc'[w] # "ev_lookup" /\ NaiveArgs(call[w])) =>
            /\ pc'[w] = "raised"
            /\ exc'[w].type = "ValueError"
            /\ UNCHANGED dbVars]_vars
  /\ [](\A w \in Writers :
          EndBeforeStart(call[w]) =>
            /\ exc[w].type # "ValueError"
            /\ pc[w] = "returned" =>
                 SessionOcc(w, OccId(OccView(w), ev[w], call[w].start_utc)).end_datetime_utc
                   = NoTime)

C12_Witness ==
  \E w \in Writers, v \in Writers :
    /\ pc[w] = "returned"
    /\ EndBeforeStart(call[w])
    /\ \E o \in OccView(w) :
         o.event_id = ev[w] /\ o.start = call[w].start_utc /\ o.end_datetime_utc = NoTime
    /\ pc[v] = "raised"
    /\ exc[v].type = "ValueError"
    /\ NaiveArgs(call[v])

(***************************************************************************)
(* Category names                                                          *)
(***************************************************************************)
AllCategoryNames == catC \cup UNION {catU[w] : w \in Writers}

AllLinks == linkC \cup UNION {linkU[w] : w \in Writers}

(* C13: every Category row and every event-category link written by the   *)
(* orchestrator and the upsert engine carries a canonical name of the      *)
(* registry; explicit, per-feed and source-default names that match no     *)
(* registry name case-insensitively are dropped before any row is created. *)
C13_OnlyRegistryNames ==
  /\ AllCategoryNames \subseteq KnownCats
  /\ \A l \in AllLinks : l[2] \in KnownCats
  /\ \A w \in Writers : todo[w] \subseteq KnownCats /\ cur[w] \in KnownCats \cup {NoText}

C13_Witness ==
  /\ src = 2
  /\ \A f \in 1..Len(feeds) :
       /\ feeds[f].categories = <<"x", "y">>
       /\ Len(feeds[f].items) = 1
       /\ feeds[f].items[1].summary = <<"a">>
       /\ feeds[f].items[1].categories = <<<<" ", "C", "O", "M", "E", "D", "Y">>>>
  /\ catU[Orch] = {Comedy}
  /\ \E l \in linkU[Orch] : l[2] = Comedy

(***************************************************************************)
(* The fuzzy layer of the venue resolver                                   *)
(***************************************************************************)
(* the normalized input, and the candidates <<venue id, text>> of Layer 2 *)
Norm == normalize_location(location_text)

Candidates ==
  Range(alias_rows) \cup {<<v[1], normalize_location(v[2])>> : v \in Range(venue_rows)}

(* Layer 1 finds nothing *)
NoExactMatch ==
  /\ location_text # NoLocation
  /\ Strip(location_text, Spaces) # << >>
  /\ \A c \in Candidates : c[2] # Norm

(* the candidates with the highest similarity ratio *)
TopCandidates ==
  {c \in Candidates :
     \A o \in Candidates :
       AtLeast(similarity_ratio(Norm, c[2]), similarity_ratio(Norm, o[2]))}

Qualifying ==
  {c \in Candidates : AtLeast(similarity_ratio(Norm, c[2]), FUZZY_MATCH_THRESHOLD)}

(* C14: when Layer 1 finds nothing, the resolver returns none if two       *)
(* candidates of different venues tie for the highest similarity ratio,    *)
(* and it returns none if no candidate reaches the threshold.              *)
C14_TieOrBelowThresholdIsNone ==
  (vpc = "done" /\ NoExactMatch) =>
    /\ (\E c \in TopCandidates, o \in TopCandidates : c[1] # o[1]) => venue_id = NoVenue
    /\ Qualifying = {} => venue_id = NoVenue

(* C15: when Layer 1 finds nothing, a venue is returned if and only if     *)
(* some alias or venue name has a similarity ratio of at least 0.85 to the *)
(* normalized input, and the venue returned is one of a candidate with the *)
(* highest ratio.                                                          *)
C15_ThresholdInclusive ==
  (vpc = "done" /\ NoExactMatch) =>
    /\ venue_id # NoVenue <=> Qualifying # {}
    /\ venue_id # NoVenue => \E c \in TopCandidates : c[1] = venue_id

(* a candidate at exactly 0.85 was resolved while another one is below *)
C15_Witness ==
  /\ vpc = "done"
  /\ NoExactMatch
  /\ venue_id = 1
  /\ \A c \in TopCandidates : similarity_ratio(Norm, c[2]) = <<34, 40>>
  /\ \E c \in Candidates : ~AtLeast(similarity_ratio(Norm, c[2]), FUZZY_MATCH_THRESHOLD)

(***************************************************************************)
(* Backoff of the fetcher                                                  *)
(***************************************************************************)
(* C16: with the defaults max_retries = 3 and base_delay = 2.0, three      *)
(* challenge responses followed by a clean calendar response give exactly  *)
(* three sleeps and four requests, the delays base_delay * 2^attempt +     *)
(* jitter are strictly increasing whatever the jitter, and fetch_ics       *)
(* returns the bytes of the clean response.                                *)
C16_ThreeIncreasingSleeps ==
  /\ \A i \in 1..Len(delays), j \in 1..Len(delays) : i < j => delays[i] < delays[j]
  /\ Len(delays) = sleeps
  /\ (max_retries = DefaultMaxRetries /\ challenges = 3 /\ fpc = "returned") =>
       /\ sleeps = 3
       /\ requests = 4
       /\ Classify(resp) = "ok"
       /\ result = resp.content

(* the largest jitter on the first sleep and the smallest on the second *)
C16_Witness ==
  /\ max_retries = DefaultMaxRetries
  /\ challenges = 3
  /\ fpc = "returned"
  /\ Len(delays) = 3
  /\ delays[1] = TicksPerSecond * base_delay + TicksPerSecond
  /\ delays[2] = TicksPerSecond * base_delay * 2
  /\ result = resp.content

(***************************************************************************)
(* What an upsert leaves alone                                             *)
(***************************************************************************)
(* C17: across every step, a committed Event keeps its slug, status,       *)
(* is_free, price_text and source_id; its hidden flag changes only in a    *)
(* step that is no step of an upsert, so an event hidden by an             *)
(* administrator stays hidden through re-ingestions; and the change an     *)
(* upsert makes to an existing Event object sets external_id only when the *)
(* object's external_id was null.                                          *)
C17_UpdateFrame ==
  [][/\ \A r \in evC, q \in evC' :
          q.id = r.id =>
            /\ q.slug = r.slug
            /\ q.status = r.status
            /\ q.is_free = r.is_free
            /\ q.price_text = r.price_text
            /\ q.source_id = r.source_id
            /\ q.hidden # r.hidden => UNCHANGED <<evU, dirty, callVars>>
      /\ \A w \in Writers : \A d \in dirty'[w] \ dirty[w] :
          \/ SessionRow(w, d.id).external_id = NoExt
          \/ d.external_id = SessionRow(w, d.id).external_id]_vars

(* the hidden, canceled event was re-ingested with another title *)
C17_Witness ==
  \E r \in evC :
    /\ r.id = 1
    /\ r.hidden
    /\ r.status = "canceled"
    /\ r.title = <<"a">>

(***************************************************************************)
(* The loser of the event-insert race                                      *)
(***************************************************************************)
(* C18: a call that lost the event-insert race and re-read the winner's    *)
(* row holds that Event with the call's own title, the refreshed value     *)
(* that update semantics would have set.                                   *)
C18_RaceLoserRefreshes ==
  \A w \in Writers :
    how[w] = "reread" => SessionRow(w, ev[w]).title = call[w].title

(***************************************************************************)
(* Identifier backfill                                                     *)
(***************************************************************************)
(* the events whose external_id writer w's session has set by backfill to  *)
(* the identifier of its current call, for the call's source               *)
BackfilledForCall(w) ==
  {d.id : d \in {x \in dirty[w] :
                   /\ x.external_id = call[w].external_id
                   /\ SessionRow(w, x.id).source_id = call[w].source_id}}

(* C19: once an event's null external_id has been backfilled, an upsert    *)
(* carrying that identifier for the same source, whatever its title or     *)
(* start, resolves to that event and does not go on to create another one. *)
C19_BackfillThenById ==
  \A w \in Writers :
    (pc[w] \notin {"idle", "ev_lookup"} /\ call[w].external_id # NoExt) =>
      \A e \in BackfilledForCall(w) : ev[w] = e

(***************************************************************************)
(* The occurrence's display fields                                         *)
(***************************************************************************)
(* every occurrence row, committed or not *)
HeldOccurrences == occC \cup UNION {occU[w] : w \in Writers}

(* the occurrence of writer w's call as its session holds it *)
CallOcc(w) == SessionOcc(w, OccId(OccView(w), ev[w], call[w].start_utc))

(* what an occurrence shows *)
Shown(o) ==
  [end_datetime_utc |-> o.end_datetime_utc, location_text |-> o.location_text,
   address_text |-> o.address_text, venue_id |-> o.venue_id]

(* this end time with the location text, extracted address and resolved    *)
(* venue of writer w's call                                                *)
CallValues(w, end_utc) ==
  [end_datetime_utc |-> end_utc, location_text |-> call[w].location,
   address_text |-> extract_address(call[w].location),
   venue_id |-> resolve_venue_id(AliasRows, VenueRows, call[w].location)]

HasCallOcc(w) == get_occurrence(OccView(w), ev[w], call[w].start_utc)

(* the step in which writer w's call leaves the occurrence upsert *)
OccWritten(w) == pc[w] \in {"occ_lookup", "occ_insert"} /\ pc'[w] = "cats"

(* writer w's transaction holds a row version of, or a pending change to,  *)
(* the occurrence of its call                                              *)
OwnsCallOcc(w) ==
  /\ HasCallOcc(w)
  /\ OccId(OccView(w), ev[w], call[w].start_utc)
       \in Ids(occU[w]) \cup {d.id : d \in occDirty[w]}

StartImmutable ==
  \A o \in HeldOccurrences, q \in HeldOccurrences' :
    q.id = o.id => (q.start = o.start /\ q.event_id = o.event_id)

Loaded == 1..(IF limit < Len(feeds) THEN limit ELSE Len(feeds))

(* C21: in a running or finished pass the batch is a permutation of the    *)
(* loaded feeds; for the rollup-prone source no rollup feed stands before  *)
(* a non-rollup feed and the ids ascend inside each of the two groups; for *)
(* every other source the ids ascend; and the feeds are fetched in the     *)
(* order of the batch.                                                     *)
C21_RollupsLastOrderKept ==
  opc \notin {"idle"} =>
    /\ Len(items) = Cardinality(Loaded)
    /\ {items[i] : i \in 1..Len(items)} = Loaded
    /\ \A i \in 1..Len(items), j \in 1..Len(items) :
         i < j =>
           IF bigtop
           THEN /\ ~(feeds[items[i]].rollup /\ ~feeds[items[j]].rollup)
                /\ feeds[items[i]].rollup = feeds[items[j]].rollup => items[i] < items[j]
           ELSE items[i] < items[j]
    /\ Len(attempted) <= Len(items)
    /\ \A i \in 1..Len(attempted) : attempted[i] = items[i]

(* three feeds of the rollup-prone source, the first and the last rollups, *)
(* were fetched in the order 2, 1, 3                                       *)
C21_Witness ==
  /\ bigtop
  /\ opc = "returned"
  /\ limit = 3
  /\ items = <<2, 1, 3>>
  /\ attempted = <<2, 1, 3>>
  /\ feeds[1].rollup /\ ~feeds[2].rollup /\ feeds[3].rollup

(***************************************************************************)
(* What a pass records about its feeds                                     *)
(***************************************************************************)
(* the feeds of the batch the pass has left with this status *)
LeftIn(status) ==
  {f \in {attempted[i] : i \in 1..Len(attempted)} : feedS[f].status = status}

Chars(str) == [i \in 1..Len(str) |-> str[i]]

DTEND == <<"D", "T", "E", "N", "D", ":", "-">>
UNTIL == <<"U", "N", "T", "I", "L", "=">>
RRULE == <<"R", "R", "U", "L", "E">>

(* pattern pat stands in s at position i *)
At(s, i, pat) ==
  /\ i + Len(pat) - 1 <= Len(s)
  /\ \A k \in 1..Len(pat) : s[i + k - 1] = pat[k]

(* ^ under re.MULTILINE: the start of the bytes or the place after \n *)
LineStart(s, i) == i = 1 \/ s[i - 1] = "\n"

(* \d+ is greedy: the position after the digits that begin at i *)
RECURSIVE AfterDigits(_, _)
AfterDigits(s, i) ==
  IF i <= Len(s) /\ IsDigit(s[i]) THEN AfterDigits(s, i + 1) ELSE i

(* _BOGUS_DTEND_RE = ^DTEND:-\d+T\d+\r?\n : the position after a match *)
(* that begins at i, or 0                                                *)
BOGUS_DTEND_RE(s, i) ==
  LET a == i + Len(DTEND)
      b == AfterDigits(s, a)
      e == AfterDigits(s, b + 1)
      f == IF e <= Len(s) /\ s[e] = "\r" THEN e + 1 ELSE e
  IN IF /\ LineStart(s, i)
        /\ At(s, i, DTEND)
        /\ b > a
        /\ b <= Len(s)
        /\ s[b] = "T"
        /\ e > b + 1
        /\ f <= Len(s)
        /\ s[f] = "\n"
     THEN f + 1
     ELSE 0

(* _EMPTY_UNTIL_RE = UNTIL=; *)
EMPTY_UNTIL_RE(s, i) ==
  IF At(s, i, UNTIL \o <<";">>) THEN i + Len(UNTIL) + 1 ELSE 0

(* pattern.sub(b"", s): the matches, found from left to right without     *)
(* overlap, are left out                                                  *)
RECURSIVE Sub(_, _, _)
Sub(match(_, _), s, i) ==
  IF i > Len(s) THEN << >>
  ELSE IF match(s, i) # 0 THEN Sub(match, s, match(s, i))
  ELSE <<s[i]>> \o Sub(match, s, i + 1)

(* lines 74-92 *)
sanitize_popmenu_ical(bytes) == Sub(EMPTY_UNTIL_RE, Sub(BOGUS_DTEND_RE, bytes, 1), 1)

(* Inputs: at most MaxPieces pieces of calendar text in any order *)
MaxPieces == 5

Pieces ==
  {DTEND, UNTIL, RRULE \o <<":">>, <<"1">>, <<"T">>, <<";">>, <<"\r">>, <<"\n">>, <<"x">>}

RECURSIVE Texts(_)
Texts(n) ==
  IF n = 0 THEN {<< >>}
  ELSE Texts(n - 1) \cup {t \o piece : t \in Texts(n - 1), piece \in Pieces}

Sanitize ==
  /\ spc = "call"
  /\ sanitized' = sanitize_popmenu_ical(ics_bytes)
  /\ spc' = "done"
  /\ UNCHANGED ics_bytes
  /\ UNCHANGED <<dbVars, callVars, orchVars, fetchVars, venueVars, weatherVars, sinkVars,
                 regVars>>

InitSanitize ==
  /\ InitDb
  /\ EmptyDb
  /\ InitCalls
  /\ OrchOff
  /\ FetchOff
  /\ VenueOff
  /\ feedC = NoFeeds
  /\ feedS = NoFeeds
  /\ ics_bytes \in Texts(MaxPieces)
  /\ sanitized = << >>
  /\ spc = "call"
  /\ WeatherOff
  /\ SinkOff
  /\ RegOff

SpecSanitize == InitSanitize /\ [][Sanitize]_vars

(* the line that holds position i begins at this position *)
RECURSIVE LineOf(_, _)
LineOf(s, i) == IF LineStart(s, i) THEN i ELSE LineOf(s, i - 1)

(* the bytes hold a line of the form DTEND:-<digits>T<digits> *)
HasSentinelLine(s) ==
  \E i \in 1..Len(s) :
    LET a == i + Len(DTEND)
        b == AfterDigits(s, a)
        e == AfterDigits(s, b + 1)
    IN /\ LineStart(s, i)
       /\ At(s, i, DTEND)
       /\ b > a
       /\ b <= Len(s)
       /\ s[b] = "T"
       /\ e > b + 1
       /\ \/ e > Len(s)
          \/ s[e] = "\n"
          \/ s[e] = "\r" /\ (e = Len(s) \/ s[e + 1] = "\n")

(* the bytes hold a recurrence rule with an UNTIL parameter of empty value *)
HasEmptyUntil(s) ==
  \E i \in 1..Len(s) :
    /\ At(s, i, UNTIL)
    /\ At(s, LineOf(s, i), RRULE)
    /\ \/ i + Len(UNTIL) > Len(s)
       \/ s[i + Len(UNTIL)] \in {";", "\r", "\n"}

(* C23: what the sanitizer returns holds no sentinel line and no           *)
(* recurrence rule with an empty UNTIL, and bytes that hold neither come   *)
(* back unchanged.                                                         *)
C23_SanitizerRemovesBoth ==
  spc = "done" =>
    /\ ~HasSentinelLine(sanitized)
    /\ ~HasEmptyUntil(sanitized)
    /\ (~HasSentinelLine(ics_bytes) /\ ~HasEmptyUntil(ics_bytes)) => sanitized = ics_bytes

(***************************************************************************)
(* What a committed pass has stored                                        *)
(***************************************************************************)
(* the committed rows hold an Event of the source for this parsed item,    *)
(* found by its identifier or its title, with an occurrence at its start   *)
Stored(e) ==
  \E r \in evC, o \in occC :
    /\ r.source_id = src
    /\ \/ r.external_id = e.uid
       \/ normalize_title_key(r.title) = normalize_title_key(e.summary)
    /\ o.event_id = r.id
    /\ o.start = e.start_utc

C25_SemanticLookupFindsEqualKeys ==
  \A w \in Writers, source_id \in CallSources, title \in Titles, start_utc \in Times :
    (/\ normalize_title_key(title) # << >>
     /\ \E r \in EvView(w), o \in OccView(w) :
          /\ r.source_id = source_id
          /\ o.event_id = r.id
          /\ o.start = start_utc
          /\ normalize_title_key(r.title) = normalize_title_key(title))
    => get_event_by_semantic_key(EvView(w), OccView(w), source_id, title, start_utc) # 0

(* C26: once a stored event has a non-null external_id, no step of an      *)
(* upsert changes that external_id                                         *)
C26_ExternalIdKept ==
  [][\A r \in evC, q \in evC' :
       (q.id = r.id /\ r.external_id # NoExt) => q.external_id = r.external_id]_vars

(* C27: under repeated passes with a fixed limit every feed of the source  *)
(* is eventually fetched: its last_fetched_at is eventually set            *)
C27_EveryFeedEventuallyFetched ==
  <>(\A f \in 1..Len(feeds) : feedC[f].last_fetched_at # 0)

(***************************************************************************)
(* The weather cache: get_weather_payload and _reserve_fetch_slot          *)
(* (app/services/weather_cache.py).  Every caller has a session of its     *)
(* own; the counter of a day is one row of weather_fetch_counters, unique  *)
(* on (provider, day).  One provider and one location are modelled.        *)
(***************************************************************************)
WEATHER_DAILY_FETCH_CAP == 2

(* .with_for_update() of line 124: the SELECT waits while another          *)
(* transaction holds the lock of the row                                   *)
RowUnlocked(d, p) == FALSE

RowLocked(d, p) == counterLock[d] \notin {0, p}

(* lines 234-256: now is taken, the fresh reports are read; a complete     *)
(* fresh payload is returned unless force_refresh is set                   *)
get_weather_payload(p, force_refresh) ==
  /\ wpc[p] = "idle"
  /\ wnow' = [wnow EXCEPT ![p] = wday]
  /\ slot' = [slot EXCEPT ![p] = 0]
  /\ wpc' = [wpc EXCEPT ![p] = IF reports = "fresh" /\ ~force_refresh
                               THEN "returned" ELSE "select"]
  /\ UNCHANGED <<wday, reports, counterC, counterLock, wins, wcount, fetchesOn, fetchesFor>>
  /\ UNCHANGED exceptWeather

(* lines 118-126: the counter of the call's local day is selected for      *)
(* update; a missing row locks nothing                                     *)
SelectCounter(p) ==
  /\ wpc[p] = "select"
  /\ LET d == wnow[p]
     IN IF d \in DOMAIN counterC
        THEN /\ ~RowLocked(d, p)
             /\ counterLock' = [counterLock EXCEPT ![d] = p]
             /\ wcount' = [wcount EXCEPT ![p] = counterC[d]]
             /\ wpc' = [wpc EXCEPT ![p] = "check"]
        ELSE /\ wpc' = [wpc EXCEPT ![p] = "insert"]
             /\ UNCHANGED <<counterLock, wcount>>
  /\ UNCHANGED <<wday, reports, counterC, wnow, wins, slot, fetchesOn, fetchesFor>>
  /\ UNCHANGED exceptWeather

(* lines 128-136: a new counter row is added and flushed.  The INSERT      *)
(* waits for a transaction that inserted the same (provider, day) and      *)
(* raises IntegrityError when that row is committed.                       *)
InsertCounter(p) ==
  /\ wpc[p] = "insert"
  /\ LET d == wnow[p]
     IN /\ ~\E q \in Clients \ {p} : wins[q] /\ wnow[q] = d
        /\ IF d \in DOMAIN counterC
           THEN /\ wpc' = [wpc EXCEPT ![p] = "raised"]
                /\ UNCHANGED <<wins, wcount>>
           ELSE /\ wins' = [wins EXCEPT ![p] = TRUE]
                /\ wcount' = [wcount EXCEPT ![p] = 0]
                /\ wpc' = [wpc EXCEPT ![p] = "check"]
  /\ UNCHANGED <<wday, reports, counterC, counterLock, wnow, slot, fetchesOn, fetchesFor>>
  /\ UNCHANGED exceptWeather

(* lines 138-144: at the cap the call returns (False, count) and keeps its *)
(* transaction open; below it the count is incremented and committed and   *)
(* the call returns (True, count)                                          *)
ReserveOrRefuse(p) ==
  /\ wpc[p] = "check"
  /\ LET d == wnow[p]
     IN IF wcount[p] >= WEATHER_DAILY_FETCH_CAP
        THEN /\ wpc' = [wpc EXCEPT ![p] = "stale"]
             /\ UNCHANGED <<counterC, counterLock, wins, wcount, slot>>
        ELSE /\ counterC' = IF wins[p] THEN (d :> wcount[p] + 1) @@ counterC
                            ELSE [counterC EXCEPT ![d] = wcount[p] + 1]
             /\ counterLock' = [counterLock EXCEPT ![d] = IF @ = p THEN 0 ELSE @]
             /\ wins' = [wins EXCEPT ![p] = FALSE]
             /\ wcount' = [wcount EXCEPT ![p] = @ + 1]
             /\ slot' = [slot EXCEPT ![p] = wcount[p] + 1]
             /\ wpc' = [wpc EXCEPT ![p] = "fetch"]
  /\ UNCHANGED <<wday, reports, wnow, fetchesOn, fetchesFor>>
  /\ UNCHANGED exceptWeather

(* lines 147-188 and 259-267: the request to the provider; it answers with *)
(* a payload or the fetch raises                                           *)
FetchProvider(p, ok) ==
  /\ wpc[p] = "fetch"
  /\ fetchesOn' = [fetchesOn EXCEPT ![wday] = @ + 1]
  /\ fetchesFor' = [fetchesFor EXCEPT ![wnow[p]] = @ + 1]
  /\ wpc' = [wpc EXCEPT ![p] = IF ok THEN "store" ELSE "stale"]
  /\ UNCHANGED <<wday, reports, counterC, counterLock, wnow, wins, wcount, slot>>
  /\ UNCHANGED exceptWeather

(* lines 191-224 and 269-284: the snapshot is stored and committed *)
StoreSnapshot(p) ==
  /\ wpc[p] = "store"
  /\ reports' = "fresh"
  /\ wpc' = [wpc EXCEPT ![p] = "returned"]
  /\ UNCHANGED <<wday, counterC, counterLock, wnow, wins, wcount, slot, fetchesOn, fetchesFor>>
  /\ UNCHANGED exceptWeather

(* lines 296-316: the newest reports are served, RuntimeError without any *)
ServeStale(p) ==
  /\ wpc[p] = "stale"
  /\ wpc' = [wpc EXCEPT ![p] = IF reports = "none" THEN "raised" ELSE "returned"]
  /\ UNCHANGED <<wday, reports, counterC, counterLock, wnow, wins, wcount, slot, fetchesOn,
                 fetchesFor>>
  /\ UNCHANGED exceptWeather

(* the caller closes its session: an open transaction is rolled back *)
CloseSession(p) ==
  /\ wpc[p] \in {"returned", "raised"}
  /\ counterLock' = [d \in 1..MaxDays |-> IF counterLock[d] = p THEN 0 ELSE counterLock[d]]
  /\ wins' = [wins EXCEPT ![p] = FALSE]
  /\ wpc' = [wpc EXCEPT ![p] = "idle"]
  /\ UNCHANGED <<wday, reports, counterC, wnow, wcount, slot, fetchesOn, fetchesFor>>
  /\ UNCHANGED exceptWeather

(* expires_at of the stored reports passes *)
Expire ==
  /\ reports = "fresh"
  /\ reports' = "stale"
  /\ UNCHANGED <<wday, counterC, counterLock, wpc, wnow, wins, wcount, slot, fetchesOn,
                 fetchesFor>>
  /\ UNCHANGED exceptWeather

(* local midnight passes *)
Midnight ==
  /\ wday < MaxDays
  /\ wday' = wday + 1
  /\ UNCHANGED <<reports, counterC, counterLock, wpc, wnow, wins, wcount, slot, fetchesOn,
                 fetchesFor>>
  /\ UNCHANGED exceptWeather

InitWeather ==
  /\ InitDb
  /\ EmptyDb
  /\ InitCalls
  /\ OrchOff
  /\ FetchOff
  /\ VenueOff
  /\ feedC = NoFeeds
  /\ feedS = NoFeeds
  /\ ics_bytes = << >>
  /\ sanitized = << >>
  /\ spc = "off"
  /\ SinkOff
  /\ RegOff
  /\ wday = 1
  /\ reports = "none"
  /\ counterC = << >>
  /\ counterLock = [d \in 1..MaxDays |-> 0]
  /\ wpc = [p \in Clients |-> "idle"]
  /\ wnow = [p \in Clients |-> 1]
  /\ wins = [p \in Clients |-> FALSE]
  /\ wcount = [p \in Clients |-> 0]
  /\ slot = [p \in Clients |-> 0]
  /\ fetchesOn = [d \in 1..MaxDays |-> 0]
  /\ fetchesFor = [d \in 1..MaxDays |-> 0]

NextWeather ==
  \/ \E p \in Clients, force_refresh \in BOOLEAN : get_weather_payload(p, force_refresh)
  \/ \E p \in Clients : SelectCounter(p)
  \/ \E p \in Clients : InsertCounter(p)
  \/ \E p \in Clients : ReserveOrRefuse(p)
  \/ \E p \in Clients, ok \in BOOLEAN : FetchProvider(p, ok)
  \/ \E p \in Clients : StoreSnapshot(p)
  \/ \E p \in Clients : ServeStale(p)
  \/ \E p \in Clients : CloseSession(p)
  \/ Expire
  \/ Midnight

SpecWeather == InitWeather /\ [][NextWeather]_vars

(* a step that performs a provider fetch is taken by a call that holds a   *)
(* slot: the count it committed to the counter of its day                  *)
FetchHoldsSlot ==
  \A p \in Clients :
    fetchesFor'[wnow[p]] > fetchesFor[wnow[p]] /\ wpc[p] = "fetch" /\ wpc'[p] # "fetch" =>
      /\ slot[p] \in 1..WEATHER_DAILY_FETCH_CAP
      /\ wnow[p] \in DOMAIN counterC
      /\ counterC[wnow[p]] >= slot[p]

(* C28, as stated: on no local day more than WEATHER_DAILY_FETCH_CAP       *)
(* provider fetches are performed, and only a call that reserved a slot    *)
(* fetches                                                                 *)
C28_CapPerLocalDay ==
  /\ [](\A d \in 1..MaxDays : fetchesOn[d] <= WEATHER_DAILY_FETCH_CAP)
  /\ [][FetchHoldsSlot]_vars

(* C28, amended: the calls whose now falls on one local day perform at     *)
(* most WEATHER_DAILY_FETCH_CAP provider fetches between them, whenever    *)
(* the fetch itself happens, and only a call that reserved a slot fetches  *)
C28_CapPerDayOfCall ==
  /\ [](\A d \in 1..MaxDays : fetchesFor[d] <= WEATHER_DAILY_FETCH_CAP)
  /\ [][FetchHoldsSlot]_vars

(* the cap of a day is used up and a call of that day is refused while     *)
(* another call of that day is still between reservation and fetch         *)
C28_Witness ==
  \E d \in 1..MaxDays, p, q \in Clients :
    /\ counterC = (d :> WEATHER_DAILY_FETCH_CAP)
    /\ wnow[p] = d /\ wpc[p] = "stale" /\ slot[p] = 0
    /\ wnow[q] = d /\ wpc[q] = "fetch" /\ slot[q] = WEATHER_DAILY_FETCH_CAP

(***************************************************************************)
(* The sink that forwards ingested events to the production API:           *)
(* ProdApiSink (app/services/ingest_sink.py).  Events are numbered in the  *)
(* order they are handed to on_event.  What one POST ends with:            *)
(*   "ok"            a status below 400 with a JSON body                   *)
(*   "garbled"       a status below 400 whose body is not JSON             *)
(*   "client_error"  a status from 400 to 499                              *)
(*   "server_error"  a status of 500 or more                               *)
(*   "exception"     requests.RequestException                             *)
(***************************************************************************)
MaxHanded == 4
MaxBatch == 3
MaxSinkRetries == 2

PostOutcomes == {"ok", "garbled", "client_error", "server_error", "exception"}

(* lines 139-162: the POST is repeated after a status of 500 or more and   *)
(* after a request exception while attempts are left; the result is the    *)
(* outcome of the attempt that ends the loop                               *)
RECURSIVE post_with_retries(_, _, _)
post_with_retries(outs, n, most) ==
  IF outs[n] \in {"server_error", "exception"} /\ n < most
  THEN post_with_retries(outs, n + 1, most)
  ELSE outs[n]

(* line 137 moved before the status test: the buffer is emptied whatever   *)
(* the POST ended with                                                     *)
buffer_dropped(buf, ended) == << >>

(* lines 127-137: the buffer after the POST: kept unless the POST was      *)
(* answered below 400 with a JSON body                                     *)
buffer_after(buf, ended) == IF ended = "ok" THEN << >> ELSE buf

(* lines 115-137: _flush_buffer over a buffer; what it raises, the buffer  *)
(* it leaves and the events that were part of a POST answered below 400    *)
flush_buffer(buf, source_id, outs) ==
  IF buf = << >> \/ source_id = 0
  THEN [ended |-> "returned", buffer |-> buf, posted |-> {}]
  ELSE LET ended == post_with_retries(outs, 1, retries)
       IN [ended  |-> CASE ended = "ok" -> "returned"
                        [] ended = "garbled" -> "JSONDecodeError"
                        [] ended = "exception" -> "RequestException"
                        [] OTHER -> "RuntimeError",
           buffer |-> buffer_after(buf, ended),
           posted |-> IF ended \in {"ok", "garbled"} THEN Range(buf) ELSE {}]

(* lines 91-110: the event is refused for another source than the sink's,  *)
(* else appended, and the buffer is flushed when it holds a batch          *)
on_event(source_id, outs) ==
  /\ sink_op.call # "none"
  /\ handed < MaxHanded
  /\ handed' = handed + 1
  /\ IF sink_source # 0 /\ sink_source # source_id
     THEN /\ sink_op' = [call |-> "on_event", ended |-> "ValueError"]
          /\ UNCHANGED <<buffer, sink_source, posted>>
     ELSE LET buf == Append(buffer, handed + 1)
          IN /\ sink_source' = source_id
             /\ IF Len(buf) >= batch_size
                THEN LET r == flush_buffer(buf, source_id, outs)
                     IN /\ buffer' = r.buffer
                        /\ posted' = posted \cup r.posted
                        /\ sink_op' = [call |-> "on_event", ended |-> r.ended]
                ELSE /\ buffer' = buf
                     /\ sink_op' = [call |-> "on_event", ended |-> "returned"]
                     /\ UNCHANGED posted
  /\ UNCHANGED <<batch_size, retries>>
  /\ UNCHANGED exceptSink

(* lines 112-113 *)
flush(outs) ==
  /\ sink_op.call # "none"
  /\ LET r == flush_buffer(buffer, sink_source, outs)
     IN /\ buffer' = r.buffer
        /\ posted' = posted \cup r.posted
        /\ sink_op' = [call |-> "flush", ended |-> r.ended]
  /\ UNCHANGED <<batch_size, retries, sink_source, handed>>
  /\ UNCHANGED exceptSink

(* A sink as the ingest task builds it (tasks.py:806), used for the one    *)
(* source of the run                                                       *)
SinkSources == {1}

InitSink ==
  /\ InitDb
  /\ EmptyDb
  /\ InitCalls
  /\ OrchOff
  /\ FetchOff
  /\ VenueOff
  /\ feedC = NoFeeds
  /\ feedS = NoFeeds
  /\ ics_bytes = << >>
  /\ sanitized = << >>
  /\ spc = "off"
  /\ WeatherOff
  /\ RegOff
  /\ batch_size \in 1..MaxBatch
  /\ retries \in 1..MaxSinkRetries
  /\ buffer = << >>
  /\ sink_source = 0
  /\ handed = 0
  /\ posted = {}
  /\ sink_op = [call |-> "init", ended |-> "returned"]

NextSink ==
  \/ \E source_id \in SinkSources, outs \in [1..retries -> PostOutcomes] :
       on_event(source_id, outs)
  \/ \E outs \in [1..retries -> PostOutcomes] : flush(outs)

SpecSink == InitSink /\ [][NextSink]_vars

(* a call of the sink ended with a failed POST: a status of 400 or more,   *)
(* or a request exception after the retries                                *)
PostFailed == sink_op'.ended \in {"RuntimeError", "RequestException"}

(* C29: after a flush() that returned normally the buffer is empty and     *)
(* every event handed to on_event was part of a POST answered below 400;   *)
(* a call that ends with a failed POST leaves every buffered event, and    *)
(* the event it was handed, in the buffer                                  *)
C29_FlushedOrKept ==
  /\ [](sink_op = [call |-> "flush", ended |-> "returned"] =>
          buffer = << >> /\ 1..handed \subseteq posted)
  /\ [][PostFailed =>
          buffer' = IF sink_op'.call = "on_event" THEN Append(buffer, handed') ELSE buffer]_vars

(* a flush returned normally after batches of two were flushed by         *)
(* on_event, and every event handed over was delivered                     *)
C29_Witness ==
  /\ sink_op = [call |-> "flush", ended |-> "returned"]
  /\ handed = MaxHanded
  /\ batch_size = 2
  /\ posted = 1..MaxHanded

(***************************************************************************)
(* The feed registry of the collectors: upsert_source_feed                 *)
(* (app/collectors/utils.py), one INSERT .. ON CONFLICT DO UPDATE on the   *)
(* unique constraint (source_id, external_id) of source_feeds              *)
(***************************************************************************)
MaxRegCalls == 2

(* SQL NULL and Python None *)
NULL == "NULL"

(* two feeds that ingestion has fetched before, one with an error *)
SeededFeeds ==
  {[id |-> 1, source_id |-> 1, external_id |-> "a", page_url |-> "p", ical_url |-> "u",
    categories |-> "c", status |-> "ok", last_fetched_at |-> 1, error |-> NULL,
    events_parsed |-> 2, events_ingested |-> 1, last_seen_at |-> 1, updated_at |-> 1],
   [id |-> 2, source_id |-> 1, external_id |-> "b", page_url |-> NULL, ical_url |-> "v",
    categories |-> NULL, status |-> "error", last_fetched_at |-> 1, error |-> "boom",
    events_parsed |-> 0, events_ingested |-> 0, last_seen_at |-> 1, updated_at |-> 1]}

(* the row of the constraint's key, if any *)
Conflicting(rows, source_id, external_id) ==
  {r \in rows : r.source_id = source_id /\ r.external_id = external_id}

(* lines 245-247 dropped: the categories column is assigned also when the  *)
(* argument is None                                                        *)
categories_always_set(old, categories) == categories

(* lines 239-247: categories is part of the SET list only for a value      *)
categories_set(old, categories) == IF categories = NULL THEN old ELSE categories

(* lines 230-257: the statement.  A missing key inserts a row with status  *)
(* new and the column defaults; a present key updates the SET list         *)
upsert_rows(rows, c, now) ==
  LET hit == Conflicting(rows, c.source_id, c.external_id)
  IN IF hit = {}
     THEN rows \cup
          {[id |-> Cardinality(rows) + 1, source_id |-> c.source_id,
            external_id |-> c.external_id, page_url |-> c.page_url, ical_url |-> c.ical_url,
            categories |-> c.categories, status |-> "new", last_fetched_at |-> NULL,
            error |-> NULL, events_parsed |-> NULL, events_ingested |-> NULL,
            last_seen_at |-> now, updated_at |-> now]}
     ELSE (rows \ hit) \cup
          {[r EXCEPT !.page_url = c.page_url, !.ical_url = c.ical_url,
                     !.last_seen_at = now, !.updated_at = now,
                     !.categories = categories_set(@, c.categories)] : r \in hit}

(* lines 199-265 *)
upsert_source_feed(source_id, external_id, page_url, ical_url, categories, dry_run) ==
  /\ reg_now \in 1..MaxRegCalls
  /\ LET c == [source_id |-> source_id, external_id |-> external_id, page_url |-> page_url,
               ical_url |-> ical_url, categories |-> categories, dry_run |-> dry_run]
     IN /\ reg_call' = c
        /\ source_feeds' = IF dry_run THEN source_feeds
                           ELSE upsert_rows(source_feeds, c, reg_now + 1)
  /\ reg_now' = reg_now + 1
  /\ UNCHANGED exceptReg

InitReg ==
  /\ InitDb
  /\ EmptyDb
  /\ InitCalls
  /\ OrchOff
  /\ FetchOff
  /\ VenueOff
  /\ feedC = NoFeeds
  /\ feedS = NoFeeds
  /\ ics_bytes = << >>
  /\ sanitized = << >>
  /\ spc = "off"
  /\ WeatherOff
  /\ SinkOff
  /\ source_feeds \in SUBSET SeededFeeds
  /\ reg_now = 1
  /\ reg_call = << >>

NextReg ==
  \E source_id \in {1, 2}, external_id \in {"a", "b"}, page_url \in {"p", "q"},
     ical_url \in {"u", "w"}, categories \in {NULL, "c", ""}, dry_run \in BOOLEAN :
    upsert_source_feed(source_id, external_id, page_url, ical_url, categories, dry_run)

SpecReg == InitReg /\ [][NextReg]_vars

(* the call of this step found a row with its key *)
KeyPresent == Conflicting(source_feeds, reg_call'.source_id, reg_call'.external_id) # {}

(* every row is still there with its key and what ingestion recorded *)
IngestionColumnsKept ==
  \A r \in source_feeds : \E q \in source_feeds' :
    /\ q.id = r.id
    /\ q.source_id = r.source_id /\ q.external_id = r.external_id
    /\ q.status = r.status /\ q.last_fetched_at = r.last_fetched_at /\ q.error = r.error
    /\ q.events_parsed = r.events_parsed /\ q.events_ingested = r.events_ingested
    /\ (reg_call'.categories = NULL => q.categories = r.categories)
    /\ (r.source_id # reg_call'.source_id \/ r.external_id # reg_call'.external_id) => q = r

(* C30: a call for a key that has a row adds no row and leaves the row's   *)
(* status, last_fetched_at, error and counts, and its categories unless a  *)
(* value is given; page_url, ical_url, last_seen_at and updated_at are the *)
(* call's; with dry_run nothing is written; no key ever has two rows       *)
C30_UpsertFrame ==
  /\ [](\A r, q \in source_feeds :
          r.source_id = q.source_id /\ r.external_id = q.external_id => r = q)
  /\ [][/\ reg_call'.dry_run => source_feeds' = source_feeds
        /\ KeyPresent /\ ~reg_call'.dry_run =>
             /\ Cardinality(source_feeds') = Cardinality(source_feeds)
             /\ IngestionColumnsKept
             /\ \A q \in Conflicting(source_feeds', reg_call'.source_id, reg_call'.external_id) :
                  /\ q.page_url = reg_call'.page_url
                  /\ q.ical_url = reg_call'.ical_url
                  /\ q.last_seen_at = reg_now'
                  /\ q.updated_at = reg_now'
                  /\ reg_call'.categories # NULL => q.categories = reg_call'.categories]_vars

(* the feed that ingestion left in error was registered again without      *)
(* categories: it keeps status, error and categories and has the new URLs  *)
C30_Witness ==
  /\ reg_call # << >>
  /\ ~reg_call.dry_run /\ reg_call.categories = NULL
  /\ \E r \in source_feeds :
       /\ r.id = 2 /\ r.status = "error" /\ r.error = "boom" /\ r.categories = NULL
       /\ r.page_url = "q" /\ r.ical_url = "w" /\ r.updated_at = reg_now /\ reg_now > 1

====
